---- MODULE Spec2Model ----
(***************************************************************************)
(* Risk-scoring and alert-dispatch pipeline of the dropout dashboard       *)
(* (src/dashboard_decrochage.py).                                          *)
(*                                                                         *)
(* Units.  Python floats are modelled by scaled integers:                  *)
(*   risk scores, probabilities, regressor outputs : ten-thousandths       *)
(*       (0.70 is 7000, 0.2999 is 2999, 1.5 is 15000);                     *)
(*   note_moyenne   : tenths of a point      (10 is 100);                  *)
(*   taux_absences  : tenths of a percent    (15 is 150);                  *)
(*   participation_projets, satisfaction_formation : hundredths            *)
(*       (0.3 is 30, 0.4 is 40).                                           *)
(* String literals are kept in ASCII (Eleve for the accented tier name).   *)
(***************************************************************************)
EXTENDS Integers, Sequences, FiniteSets, TLC

VARIABLES
    pc,               \* position of the call being modelled
    df_row,           \* the student record handed to the pipeline
    label_encoders,   \* field name -> classes_ of its LabelEncoder
    feature_names,    \* the ordered feature-name list
    scaler,           \* the optional scaler artifact
    feature_df,       \* result of prepare_features inside predict_risk
    model_calls,      \* arguments the three model calls received
    prediction,       \* what predict_risk returned (or the exception it raised)
    risk_level,       \* what get_risk_level returned
    recommendations,  \* what get_recommendations returned (or raised)
    smtp_config,      \* smtp_config argument of send_email_alert
    smtp_fault,       \* the failure the SMTP transport will produce, if any
    smtp_log,         \* SMTP calls made by send_email_alert, in order
    email_result,     \* what send_email_alert returned (or the escaped exception)
    teams_call,       \* arguments of send_teams_webhook, and the clock it reads
    http_outcome,     \* what requests.post will do: a response or an exception
    http_posts,       \* the POST requests send_teams_webhook made, in order
    teams_result,     \* what send_teams_webhook returned (or the escaped exception)
    df_with_predictions,  \* the dataset merged with the cached predictions
    sidebar,          \* the three sidebar filters
    df_filtered,      \* the dataset after the sidebar filters
    selection,        \* selection mode and, in manual mode, the chosen ids
    selected_students,  \* the students targeted by the alert
    alert_form,       \* the widgets of the alert tab: channels, settings, title
    message_body,     \* the email body composed on the page
    email_call,       \* arguments the send handler gave send_email_alert
    send_report,      \* what the send handler counted and displayed
    schedule_form,    \* the widgets of the recurring-alert form
    schedule_file,    \* the content of alert_schedule.json
    save_report,      \* what the save handler displayed
    deployment,       \* the files on disk: dataset rows and model artifacts
    df_dataset,       \* df: the dataset load_data returned to the page
    session_state,    \* st.session_state: the predictions key and its list
    predict_calls,    \* the calls of predict_risk made in this session
    page_run          \* the widget that triggered the last run and its outcome

vars == <<pc, df_row, label_encoders, feature_names, scaler, feature_df,
          model_calls, prediction, risk_level, recommendations,
          smtp_config, smtp_fault, smtp_log, email_result,
          teams_call, http_outcome, http_posts, teams_result,
          df_with_predictions, sidebar, df_filtered, selection,
          selected_students, alert_form, message_body, email_call,
          send_report, schedule_form, schedule_file, save_report,
          deployment, df_dataset, session_state, predict_calls, page_run>>

teamsVars == <<teams_call, http_outcome, http_posts, teams_result>>
selectVars == <<df_with_predictions, sidebar, df_filtered, selection,
                selected_students>>
sendVars == <<alert_form, message_body, email_call, send_report>>
scheduleVars == <<schedule_form, schedule_file, save_report>>
sessionVars ==
    <<deployment, df_dataset, session_state, predict_calls, page_run>>

(***************************************************************************)
(* Bounds of the model.                                                    *)
(***************************************************************************)
\* raw field values of the feature adapter range over 0..MaxValue
MaxValue == 2
\* feature_names has at most MaxFeatures entries
MaxFeatures == 2
\* sampled values lie Delta below, at, and Delta above each threshold
Delta == 1
\* how far outside [0,1] the regressor output is sampled (0.5 as in the tests)
Overshoot == 5000

(***************************************************************************)
(* Program constants.                                                      *)
(***************************************************************************)
ScoreMin == 0
ScoreMax == 10000
SeuilCritique == 7000
SeuilEleve == 5000
SeuilModere == 3000
SeuilNote == 100
SeuilAbsences == 150
SeuilParticipation == 30
SeuilRetards == 2
SeuilSatisfaction == 40
SeuilActionImmediate == 7000
SslPort == 465

(***************************************************************************)
(* Values, records, results.                                               *)
(***************************************************************************)
\* a record cell: the field is absent from df_row.index, or holds a value
Missing == [has |-> FALSE, v |-> 0]
Cell(x) == [has |-> TRUE, v |-> x]

\* col in df_row.index
HasField(row, col) == col \in DOMAIN row /\ row[col].has

\* a call either returns a value or raises an exception of a named class
Returned(x) == [exc |-> "None", val |-> x]
Raised(e) == [exc |-> e, val |-> 0]

Max(a, b) == IF a >= b THEN a ELSE b
Min(a, b) == IF a <= b THEN a ELSE b

(***************************************************************************)
(* Feature Adapter: prepare_features.                                      *)
(***************************************************************************)
\* LabelEncoder.transform([value])[0]: the index of value in the sorted
\* classes_, ValueError for a label the encoder has not seen
Transform(classes, value) ==
    IF value \in classes
    THEN Returned(Cardinality({c \in classes : c < value}))
    ELSE Raised("ValueError")

\* mutant: the encoder miss is not caught
EncodeFeatureNoCatch(row, encoders, col) ==
    IF HasField(row, col)
    THEN IF col \in DOMAIN encoders
         THEN Transform(encoders[col], row[col].v)
         ELSE Returned(row[col].v)
    ELSE Returned(0)

\* mutant: an unseen label falls back to the raw value instead of 0
EncodeFeatureRawOnMiss(row, encoders, col) ==
    IF HasField(row, col)
    THEN IF col \in DOMAIN encoders
         THEN LET t == Transform(encoders[col], row[col].v)
              IN  IF t.exc = "ValueError" THEN Returned(row[col].v) ELSE t
         ELSE Returned(row[col].v)
    ELSE Returned(0)

\* the body of the loop over feature_names: the value stored in features[col]
EncodeFeature(row, encoders, col) ==
    IF HasField(row, col)
    THEN IF col \in DOMAIN encoders
         THEN LET t == Transform(encoders[col], row[col].v)
              IN  IF t.exc = "ValueError" THEN Returned(0) ELSE t
         ELSE Returned(row[col].v)
    ELSE Returned(0)

\* features is filled per name, then read back in feature_names order
\* (pd.DataFrame([features])[feature_names]); the first exception propagates
prepare_features(row, encoders, names) ==
    LET cells == [i \in 1..Len(names) |-> EncodeFeature(row, encoders, names[i])]
        bad == {i \in 1..Len(names) : cells[i].exc # "None"}
    IN  IF bad = {}
        THEN [exc |-> "None", val |-> [i \in 1..Len(names) |-> cells[i].val]]
        ELSE [exc |-> cells[CHOOSE i \in bad : \A j \in bad : i <= j].exc,
              val |-> <<>>]

(***************************************************************************)
(* Risk Predictor: predict_risk.                                           *)
(***************************************************************************)
NoScaler == [present |-> FALSE, mean |-> 0]

\* scaler.transform(feature_df): a column-wise affine map, here x - mean
ScalerTransform(sc, vec) == [i \in 1..Len(vec) |-> vec[i] - sc.mean]

\* what model_decrochage.predict and predict_proba are called with
ClassifierInput(sc, vec) == IF sc.present THEN ScalerTransform(sc, vec) ELSE vec

\* mutant: the regressor is fed the scaled features too
RegressorInputScaled(sc, vec) == ClassifierInput(sc, vec)

\* what model_risque.predict is called with
RegressorInput(sc, vec) == vec

\* mutant: only the upper bound is enforced
ClampUpperOnly(r) == Min(ScoreMax, r)

\* risque_score = max(0, min(1, risque_score))
Clamp(r) == Max(ScoreMin, Min(ScoreMax, r))

NoCalls == [predict_arg |-> <<>>, proba_arg |-> <<>>, regressor_arg |-> <<>>,
            regressor_out |-> 0]
NoPrediction == [exc |-> "None", decrochage_pred |-> 0, decrochage_proba |-> 0,
                 risque_score |-> 0]

\* pred, proba, reg are the outputs of the opaque models for this call
predict_risk(row, encoders, names, sc, pred, proba, reg) ==
    LET f == prepare_features(row, encoders, names)
    IN  IF f.exc # "None"
        THEN [features |-> f, calls |-> NoCalls,
              result |-> [NoPrediction EXCEPT !.exc = f.exc]]
        ELSE [features |-> f,
              calls |-> [predict_arg |-> ClassifierInput(sc, f.val),
                         proba_arg |-> ClassifierInput(sc, f.val),
                         regressor_arg |-> RegressorInput(sc, f.val),
                         regressor_out |-> reg],
              result |-> [exc |-> "None", decrochage_pred |-> pred,
                          decrochage_proba |-> proba,
                          risque_score |-> Clamp(reg)]]

(***************************************************************************)
(* Risk Classifier: get_risk_level.                                        *)
(***************************************************************************)
NoLevel == [niveau |-> "", emoji |-> "", color |-> "", fill |-> ""]

\* mutant: the critical bound is open
get_risk_level_open(risque_score) ==
    IF risque_score > SeuilCritique
    THEN [niveau |-> "Critique", emoji |-> "red", color |-> "#ff0000",
          fill |-> "rgba(255, 0, 0, 0.25)"]
    ELSE IF risque_score >= SeuilEleve
    THEN [niveau |-> "Eleve", emoji |-> "orange", color |-> "#ff8800",
          fill |-> "rgba(255, 136, 0, 0.25)"]
    ELSE IF risque_score >= SeuilModere
    THEN [niveau |-> "Modere", emoji |-> "yellow", color |-> "#ffbb00",
          fill |-> "rgba(255, 187, 0, 0.25)"]
    ELSE [niveau |-> "Faible", emoji |-> "green", color |-> "#00cc00",
          fill |-> "rgba(0, 204, 0, 0.25)"]

get_risk_level(risque_score) ==
    IF risque_score >= SeuilCritique
    THEN [niveau |-> "Critique", emoji |-> "red", color |-> "#ff0000",
          fill |-> "rgba(255, 0, 0, 0.25)"]
    ELSE IF risque_score >= SeuilEleve
    THEN [niveau |-> "Eleve", emoji |-> "orange", color |-> "#ff8800",
          fill |-> "rgba(255, 136, 0, 0.25)"]
    ELSE IF risque_score >= SeuilModere
    THEN [niveau |-> "Modere", emoji |-> "yellow", color |-> "#ffbb00",
          fill |-> "rgba(255, 187, 0, 0.25)"]
    ELSE [niveau |-> "Faible", emoji |-> "green", color |-> "#00cc00",
          fill |-> "rgba(0, 204, 0, 0.25)"]

(***************************************************************************)
(* Inputs of the scoring specification.                                    *)
(***************************************************************************)
FeatureFields == {"programme", "note_moyenne"}
Cells == {Missing} \cup {Cell(x) : x \in 0..MaxValue}
FeatureRows == [programme : Cells, note_moyenne : Cells]

\* a fitted LabelEncoder knows the labels 0 and MaxValue; the others are unseen
Classes == {0, MaxValue}
EncoderMaps == UNION {[D -> {Classes}] : D \in SUBSET FeatureFields}

FeatureOrders == UNION {[1..n -> FeatureFields] : n \in 0..MaxFeatures}
Scalers == {NoScaler, [present |-> TRUE, mean |-> 1]}

Thresholds == {ScoreMin, SeuilModere, SeuilEleve, SeuilCritique, ScoreMax}
RegressorOutputs ==
    {t + d : t \in Thresholds, d \in {0 - Delta, 0, Delta}}
        \cup {6990, ScoreMin - Overshoot, ScoreMax + Overshoot}
ClassifierLabels == {0, 1}
ClassifierProbas == {ScoreMin, ScoreMax}

(***************************************************************************)
(* Idle values of the variables a specification does not use.              *)
(***************************************************************************)
NoRecommendations == [exc |-> "None", val |-> <<>>]
NoSmtpConfig == [present |-> FALSE, has_from |-> FALSE, smtp_server |-> "",
                 smtp_port |-> 0, from_email |-> "", password |-> ""]
NoFault == [step |-> "none", exc |-> "None"]
NoEmailResult == [escaped |-> "None", success |-> FALSE, kind |-> "",
                  server |-> "", port |-> 0, detail |-> ""]
NoResume == [critiques |-> 0, eleve |-> 0, modere |-> 0]
NoMessage ==
    [type |-> "none", lines |-> <<>>, date |-> 0, nombre_etudiants |-> 0,
     resume |-> NoResume, etudiants |-> <<>>, etudiants_restants |-> Missing]
NoTeamsCall ==
    [webhook_url |-> "", title |-> "", message |-> NoMessage, color |-> "",
     is_workflow |-> FALSE, now |-> 0]
NoHttpOutcome == [exc |-> "None", status_code |-> 0, text_len |-> 0]
NoTeamsResult ==
    [escaped |-> "None", success |-> FALSE, kind |-> "", status_code |-> 0,
     text_len |-> 0, detail |-> ""]
TeamsIdle ==
    /\ teams_call = NoTeamsCall
    /\ http_outcome = NoHttpOutcome
    /\ http_posts = <<>>
    /\ teams_result = NoTeamsResult
NoSidebar == [programme |-> "Tous", annee |-> 0, niveau |-> "Tous"]
NoSelection == [mode |-> "", ids |-> {}]
SelectIdle ==
    /\ df_with_predictions = <<>>
    /\ sidebar = NoSidebar
    /\ df_filtered = <<>>
    /\ selection = NoSelection
    /\ selected_students = <<>>
NoAlertForm ==
    [alert_type |-> "", smtp_server |-> "", smtp_port |-> 0, from_email |-> "",
     email_password |-> "", recipient_email |-> "", teams_type |-> "",
     teams_webhook |-> "", alert_title |-> "", message_template |-> ""]
NoEmailCall == [to_email |-> "", subject |-> "", body |-> NoMessage]
NoSendReport ==
    [success_count |-> 0, error_messages |-> <<>>, warnings |-> <<>>,
     calls |-> <<>>]
SendIdle ==
    /\ alert_form = NoAlertForm
    /\ message_body = NoMessage
    /\ email_call = NoEmailCall
    /\ send_report = NoSendReport
NoDay == [unit |-> "none", v |-> 0]
NoScheduleForm ==
    [schedule_alert |-> FALSE, frequency |-> "", schedule_day |-> NoDay,
     schedule_time |-> [hour |-> 0, minute |-> 0]]
NoDocument ==
    [frequency |-> "", time |-> [hh |-> 0, mm |-> 0, ss |-> 0],
     alert_type |-> "", students |-> <<>>, title |-> "", message |-> NoMessage]
NoScheduleFile == [state |-> "absent", doc |-> NoDocument]
ScheduleIdle ==
    /\ schedule_form = NoScheduleForm
    /\ schedule_file = NoScheduleFile
    /\ save_report = ""
NoDeployment == [files |-> {}, rows |-> <<>>, scores |-> <<>>, raising_row |-> 0]
NoSessionState == [has_predictions |-> FALSE, predictions |-> <<>>]
NoPageRun == [trigger |-> "", outcome |-> ""]
SessionIdle ==
    /\ deployment = NoDeployment
    /\ df_dataset = <<>>
    /\ session_state = NoSessionState
    /\ predict_calls = <<>>
    /\ page_run = NoPageRun

(***************************************************************************)
(* Scoring specification: predict_risk on one record, then get_risk_level  *)
(* on the score it returned.                                               *)
(***************************************************************************)
Init ==
    /\ pc = "start"
    /\ df_row \in FeatureRows
    /\ label_encoders \in EncoderMaps
    /\ feature_names \in FeatureOrders
    /\ scaler \in Scalers
    /\ feature_df = [exc |-> "None", val |-> <<>>]
    /\ model_calls = NoCalls
    /\ prediction = NoPrediction
    /\ risk_level = NoLevel
    /\ recommendations = NoRecommendations
    /\ smtp_config = NoSmtpConfig
    /\ smtp_fault = NoFault
    /\ smtp_log = <<>>
    /\ email_result = NoEmailResult
    /\ TeamsIdle
    /\ SelectIdle
    /\ SendIdle
    /\ ScheduleIdle
    /\ SessionIdle

PredictRisk ==
    /\ pc = "start"
    /\ \E pred \in ClassifierLabels, proba \in ClassifierProbas,
          reg \in RegressorOutputs :
         LET r == predict_risk(df_row, label_encoders, feature_names, scaler,
                               pred, proba, reg)
         IN  /\ feature_df' = r.features
             /\ model_calls' = r.calls
             /\ prediction' = r.result
             /\ pc' = IF r.result.exc = "None" THEN "predicted" ELSE "failed"
    /\ UNCHANGED <<df_row, label_encoders, feature_names, scaler, risk_level,
                   recommendations, smtp_config, smtp_fault, smtp_log,
                   email_result>>
    /\ UNCHANGED <<teamsVars, selectVars, sendVars, scheduleVars,
                   sessionVars>>

GetRiskLevel ==
    /\ pc = "predicted"
    /\ risk_level' = get_risk_level(prediction.risque_score)
    /\ pc' = "classified"
    /\ UNCHANGED <<df_row, label_encoders, feature_names, scaler, feature_df,
                   model_calls, prediction, recommendations, smtp_config,
                   smtp_fault, smtp_log, email_result>>
    /\ UNCHANGED <<teamsVars, selectVars, sendVars, scheduleVars,
                   sessionVars>>

Next == PredictRisk \/ GetRiskLevel

Spec == Init /\ [][Next]_vars

(***************************************************************************)
(* Properties of the scoring specification.                                *)
(***************************************************************************)
\* C1: for every score in [0,1] get_risk_level returns exactly one of the
\* four tiers, lower bounds closed: >= 0.70 Critique, [0.50, 0.70) Eleve,
\* [0.30, 0.50) Modere, < 0.30 Faible; 0.70 is Critique, 0.699 is Eleve,
\* 0.30 is Modere and 0.2999 is Faible.
C1_RiskTiers ==
    pc = "classified" =>
        LET s == prediction.risque_score
            n == risk_level.niveau
        IN  /\ s \in 0..10000
            /\ n \in {"Critique", "Eleve", "Modere", "Faible"}
            /\ n = "Critique" <=> s >= 7000
            /\ n = "Eleve" <=> (5000 <= s /\ s < 7000)
            /\ n = "Modere" <=> (3000 <= s /\ s < 5000)
            /\ n = "Faible" <=> s < 3000
            /\ s = 7000 => n = "Critique"
            /\ s = 6990 => n = "Eleve"
            /\ s = 3000 => n = "Modere"
            /\ s = 2999 => n = "Faible"

C1_Witness ==
    /\ pc = "classified"
    /\ prediction.risque_score = 7000
    /\ risk_level.niveau = "Critique"

\* C2: whatever the regressor returns, the score returned by predict_risk is
\* in [0,1]: 0 below 0, 1 above 1, the regressor's value in between.
C2_ScoreClamped ==
    pc \in {"predicted", "classified"} =>
        LET r == model_calls.regressor_out
            s == prediction.risque_score
        IN  /\ 0 <= s /\ s <= 10000
            /\ r < 0 => s = 0
            /\ r > 10000 => s = 10000
            /\ (0 <= r /\ r <= 10000) => s = r

C2_Witness ==
    /\ pc = "predicted"
    /\ model_calls.regressor_out < 0
    /\ prediction.risque_score = 0

\* C3: with a scaler, predict and predict_proba receive the scaled feature
\* vector and the regressor the unscaled one; without a scaler all three
\* calls receive the unscaled feature vector.
C3_ScalerAsymmetry ==
    pc \in {"predicted", "classified"} =>
        LET raw == feature_df.val
            scaled == [i \in 1..Len(raw) |-> raw[i] - scaler.mean]
        IN  /\ model_calls.regressor_arg = raw
            /\ scaler.present =>
                   /\ model_calls.predict_arg = scaled
                   /\ model_calls.proba_arg = scaled
            /\ ~scaler.present =>
                   /\ model_calls.predict_arg = raw
                   /\ model_calls.proba_arg = raw

C3_Witness ==
    /\ pc = "predicted"
    /\ scaler.present
    /\ Len(feature_df.val) > 0
    /\ model_calls.predict_arg # model_calls.regressor_arg
    /\ model_calls.regressor_arg = feature_df.val

\* C4: prepare_features yields one value per name of feature_names, in that
\* order: the encoder's output for a known label, 0 for a label the encoder
\* does not know, the raw value for a field with no encoder, 0 for a field
\* the record lacks.
C4_FeatureValues ==
    pc \in {"predicted", "classified", "failed"} =>
        /\ feature_df.exc = "None"
        /\ DOMAIN feature_df.val = 1..Len(feature_names)
        /\ \A i \in 1..Len(feature_names) :
             LET col == feature_names[i]
                 out == feature_df.val[i]
             IN  IF ~(col \in DOMAIN df_row /\ df_row[col].has)
                 THEN out = 0
                 ELSE IF col \notin DOMAIN label_encoders
                 THEN out = df_row[col].v
                 ELSE IF df_row[col].v \in label_encoders[col]
                 THEN out = Cardinality({c \in label_encoders[col] :
                                            c < df_row[col].v})
                 ELSE out = 0

C4_Witness ==
    /\ pc = "predicted"
    /\ feature_names = <<"programme", "note_moyenne">>
    /\ "programme" \in DOMAIN label_encoders
    /\ df_row.programme = Cell(MaxValue)
    /\ "note_moyenne" \notin DOMAIN label_encoders
    /\ df_row.note_moyenne = Cell(1)
    /\ feature_df.val = <<1, 1>>

\* C5: prepare_features never raises on a label the encoder has not seen or
\* on a field missing from the record, and its output has len(feature_names)
\* entries.
C5_AdapterNeverRaises ==
    pc \in {"predicted", "classified", "failed"} =>
        /\ feature_df.exc = "None"
        /\ prediction.exc = "None"
        /\ Len(feature_df.val) = Len(feature_names)

C5_Witness ==
    /\ pc = "predicted"
    /\ feature_names = <<"programme", "note_moyenne">>
    /\ "programme" \in DOMAIN label_encoders
    /\ df_row.programme.has
    /\ df_row.programme.v \notin label_encoders["programme"]
    /\ ~df_row.note_moyenne.has
    /\ feature_df.val = <<0, 0>>

(***************************************************************************)
(* Recommendation Engine: get_recommendations.                             *)
(* df_row['x'] on a record without the field x raises KeyError; each rule  *)
(* is "fired", "skipped", or "KeyError".                                   *)
(***************************************************************************)
\* mutant: the grade rule also fires at the threshold
RuleSoutienInclusive(row) ==
    IF ~HasField(row, "note_moyenne") THEN "KeyError"
    ELSE IF row["note_moyenne"].v <= SeuilNote THEN "fired" ELSE "skipped"

RuleSoutien(row) ==
    IF ~HasField(row, "note_moyenne") THEN "KeyError"
    ELSE IF row["note_moyenne"].v < SeuilNote THEN "fired" ELSE "skipped"

RuleContact(row) ==
    IF ~HasField(row, "taux_absences") THEN "KeyError"
    ELSE IF row["taux_absences"].v > SeuilAbsences THEN "fired" ELSE "skipped"

RuleProjets(row) ==
    IF ~HasField(row, "participation_projets") THEN "KeyError"
    ELSE IF row["participation_projets"].v < SeuilParticipation
         THEN "fired" ELSE "skipped"

RuleTemps(row) ==
    IF ~HasField(row, "nb_projets_en_retard") THEN "KeyError"
    ELSE IF row["nb_projets_en_retard"].v > SeuilRetards
         THEN "fired" ELSE "skipped"

\* "and" short-circuits: annee_etude is read only when nb_rdv_pedagogique is 0
RulePremierContact(row) ==
    IF ~HasField(row, "nb_rdv_pedagogique") THEN "KeyError"
    ELSE IF row["nb_rdv_pedagogique"].v # 0 THEN "skipped"
    ELSE IF ~HasField(row, "annee_etude") THEN "KeyError"
    ELSE IF row["annee_etude"].v = 1 THEN "fired" ELSE "skipped"

RuleEnquete(row) ==
    IF ~HasField(row, "satisfaction_formation") THEN "KeyError"
    ELSE IF row["satisfaction_formation"].v < SeuilSatisfaction
         THEN "fired" ELSE "skipped"

RuleOutcomes(row) ==
    <<RuleSoutien(row), RuleContact(row), RuleProjets(row), RuleTemps(row),
      RulePremierContact(row), RuleEnquete(row)>>

\* the strings appended by the six rules, named by their bold heading
RuleItems ==
    <<"Soutien academique", "Contact urgent", "Projets", "Gestion du temps",
      "Premier contact", "Enquete">>
ItemImmediate == "ACTION IMMEDIATE"
ItemStable == "Profil stable"

\* recommendations.append(...) for each fired rule, rules 1..n in order
RECURSIVE FiredItems(_, _)
FiredItems(outcomes, n) ==
    IF n = 0 THEN <<>>
    ELSE FiredItems(outcomes, n - 1)
             \o (IF outcomes[n] = "fired" THEN <<RuleItems[n]>> ELSE <<>>)

\* mutant: the urgent item is appended instead of inserted at position 0
InsertImmediateAtEnd(recs, risque_score) ==
    IF risque_score >= SeuilActionImmediate
    THEN recs \o <<ItemImmediate>> ELSE recs

\* if risque_score >= 0.7: recommendations.insert(0, ...)
InsertImmediate(recs, risque_score) ==
    IF risque_score >= SeuilActionImmediate
    THEN <<ItemImmediate>> \o recs ELSE recs

\* mutant: the fallback is added whenever no rule fired, before looking at
\* the list the urgent item may already be in
AddFallbackAlways(recs) ==
    IF recs = <<>> \/ recs = <<ItemImmediate>>
    THEN recs \o <<ItemStable>> ELSE recs

\* if not recommendations: recommendations.append(stable profile)
AddFallback(recs) == IF recs = <<>> THEN <<ItemStable>> ELSE recs

\* decrochage_pred is accepted and never read
get_recommendations(row, risque_score, decrochage_pred) ==
    LET outcomes == RuleOutcomes(row)
    IN  IF \E i \in 1..Len(outcomes) : outcomes[i] = "KeyError"
        THEN [exc |-> "KeyError", val |-> <<>>]
        ELSE [exc |-> "None",
              val |-> AddFallback(InsertImmediate(
                          FiredItems(outcomes, Len(outcomes)), risque_score))]

(***************************************************************************)
(* Recommendation specification: get_recommendations on one record with a  *)
(* score and a label taken from the cached predictions.                    *)
(***************************************************************************)
Around(t) == {Cell(t - Delta), Cell(t), Cell(t + Delta)} \cup {Missing}
RecoRows ==
    [note_moyenne : Around(SeuilNote),
     taux_absences : Around(SeuilAbsences),
     participation_projets : Around(SeuilParticipation),
     nb_projets_en_retard : Around(SeuilRetards),
     nb_rdv_pedagogique : {Cell(0), Cell(1), Missing},
     annee_etude : {Cell(1), Cell(2), Missing},
     satisfaction_formation : Around(SeuilSatisfaction)]
RecoScores == {ScoreMin, SeuilCritique - Delta, SeuilCritique, ScoreMax}

InitReco ==
    /\ pc = "reco_start"
    /\ df_row \in RecoRows
    /\ \E s \in RecoScores, p \in ClassifierLabels :
         prediction = [NoPrediction EXCEPT !.risque_score = s,
                                           !.decrochage_pred = p]
    /\ label_encoders = <<>>
    /\ feature_names = <<>>
    /\ scaler = NoScaler
    /\ feature_df = [exc |-> "None", val |-> <<>>]
    /\ model_calls = NoCalls
    /\ risk_level = NoLevel
    /\ recommendations = NoRecommendations
    /\ smtp_config = NoSmtpConfig
    /\ smtp_fault = NoFault
    /\ smtp_log = <<>>
    /\ email_result = NoEmailResult
    /\ TeamsIdle
    /\ SelectIdle
    /\ SendIdle
    /\ ScheduleIdle
    /\ SessionIdle

GetRecommendations ==
    /\ pc = "reco_start"
    /\ recommendations' = get_recommendations(df_row, prediction.risque_score,
                                              prediction.decrochage_pred)
    /\ pc' = "recommended"
    /\ UNCHANGED <<df_row, label_encoders, feature_names, scaler, feature_df,
                   model_calls, prediction, risk_level, smtp_config,
                   smtp_fault, smtp_log, email_result>>
    /\ UNCHANGED <<teamsVars, selectVars, sendVars, scheduleVars,
                   sessionVars>>

NextReco == GetRecommendations

SpecReco == InitReco /\ [][NextReco]_vars

(***************************************************************************)
(* Properties of the recommendation specification.                         *)
(***************************************************************************)
\* the record carries every field the engine reads
CompleteRow ==
    \A c \in {"note_moyenne", "taux_absences", "participation_projets",
              "nb_projets_en_retard", "nb_rdv_pedagogique", "annee_etude",
              "satisfaction_formation"} : df_row[c].has

\* the six conditions as the specification words them, on a present field
CondGrade == df_row["note_moyenne"].has /\ df_row["note_moyenne"].v < 100
CondAbsences == df_row["taux_absences"].has /\ df_row["taux_absences"].v > 150
CondParticipation ==
    df_row["participation_projets"].has /\ df_row["participation_projets"].v < 30
CondLate ==
    df_row["nb_projets_en_retard"].has /\ df_row["nb_projets_en_retard"].v > 2
CondOnboarding ==
    /\ df_row["nb_rdv_pedagogique"].has /\ df_row["nb_rdv_pedagogique"].v = 0
    /\ df_row["annee_etude"].has /\ df_row["annee_etude"].v = 1
CondSatisfaction ==
    df_row["satisfaction_formation"].has /\ df_row["satisfaction_formation"].v < 40

ExpectedRuleItems ==
    (IF CondGrade THEN <<"Soutien academique">> ELSE <<>>)
        \o (IF CondAbsences THEN <<"Contact urgent">> ELSE <<>>)
        \o (IF CondParticipation THEN <<"Projets">> ELSE <<>>)
        \o (IF CondLate THEN <<"Gestion du temps">> ELSE <<>>)
        \o (IF CondOnboarding THEN <<"Premier contact">> ELSE <<>>)
        \o (IF CondSatisfaction THEN <<"Enquete">> ELSE <<>>)

NoRuleHolds ==
    ~(CondGrade \/ CondAbsences \/ CondParticipation \/ CondLate
        \/ CondOnboarding \/ CondSatisfaction)

IsRuleItem(x) == x \notin {"ACTION IMMEDIATE", "Profil stable"}

\* C6: the six rules are evaluated independently and the output lists, in
\* rule order, exactly the recommendations whose condition holds (grade < 10,
\* absences > 15, participation < 0.3, late projects > 2, no meeting in first
\* year, satisfaction < 0.4); a value at its threshold fires nothing.
C6_RulesInOrder ==
    (pc = "recommended" /\ CompleteRow) =>
        /\ recommendations.exc = "None"
        /\ SelectSeq(recommendations.val, IsRuleItem) = ExpectedRuleItems
        /\ df_row["note_moyenne"].v = 100 =>
               \A i \in DOMAIN recommendations.val :
                   recommendations.val[i] # "Soutien academique"
        /\ df_row["taux_absences"].v = 150 =>
               \A i \in DOMAIN recommendations.val :
                   recommendations.val[i] # "Contact urgent"
        /\ df_row["participation_projets"].v = 30 =>
               \A i \in DOMAIN recommendations.val :
                   recommendations.val[i] # "Projets"
        /\ df_row["nb_projets_en_retard"].v = 2 =>
               \A i \in DOMAIN recommendations.val :
                   recommendations.val[i] # "Gestion du temps"
        /\ df_row["satisfaction_formation"].v = 40 =>
               \A i \in DOMAIN recommendations.val :
                   recommendations.val[i] # "Enquete"

C6_Witness ==
    /\ pc = "recommended"
    /\ CompleteRow
    /\ prediction.risque_score >= 7000
    /\ recommendations.val =
           <<"ACTION IMMEDIATE", "Soutien academique", "Contact urgent",
             "Projets", "Gestion du temps", "Premier contact", "Enquete">>

\* C7: the returned list has the immediate-action item at position 0 exactly
\* when score >= 0.70, whichever rules fired, and nowhere else.
C7_ImmediateFirst ==
    (pc = "recommended" /\ CompleteRow) =>
        /\ recommendations.exc = "None"
        /\ Len(recommendations.val) >= 1
        /\ recommendations.val[1] = "ACTION IMMEDIATE"
               <=> prediction.risque_score >= 7000
        /\ \A i \in 2..Len(recommendations.val) :
               recommendations.val[i] # "ACTION IMMEDIATE"

C7_Witness ==
    /\ pc = "recommended"
    /\ CompleteRow
    /\ prediction.risque_score = 7000
    /\ Len(recommendations.val) = 3
    /\ recommendations.val[1] = "ACTION IMMEDIATE"

\* C8 as stated: whenever none of the six rules fires the result is the
\* single stable-profile message, for every score.
C8_StableForEveryScore ==
    (pc = "recommended" /\ CompleteRow /\ NoRuleHolds) =>
        recommendations.val = <<"Profil stable">>

\* C8 as amended: when none of the six rules fires the result is a single
\* item, the stable-profile message if score < 0.70 and the immediate-action
\* item if score >= 0.70.
C8_StableBelowCritical ==
    (pc = "recommended" /\ CompleteRow /\ NoRuleHolds) =>
        /\ recommendations.exc = "None"
        /\ prediction.risque_score < 7000 =>
               recommendations.val = <<"Profil stable">>
        /\ prediction.risque_score >= 7000 =>
               recommendations.val = <<"ACTION IMMEDIATE">>

C8_Witness ==
    /\ pc = "recommended"
    /\ CompleteRow
    /\ NoRuleHolds
    /\ prediction.risque_score = 6999
    /\ recommendations.val = <<"Profil stable">>

\* C9: get_recommendations never raises: a rule whose field is absent from
\* the record counts as not fired and the other rules are still evaluated.
C9_NeverRaises ==
    pc = "recommended" =>
        /\ recommendations.exc = "None"
        /\ SelectSeq(recommendations.val, IsRuleItem) = ExpectedRuleItems

(***************************************************************************)
(* Notification Dispatcher, email channel: send_email_alert.               *)
(***************************************************************************)
\* the exception classes involved, each with its base class
ExcParent ==
    [SMTPAuthenticationError |-> "SMTPResponseException",
     SMTPConnectError |-> "SMTPResponseException",
     SMTPDataError |-> "SMTPResponseException",
     SMTPResponseException |-> "SMTPException",
     SMTPServerDisconnected |-> "SMTPException",
     SMTPRecipientsRefused |-> "SMTPException",
     SMTPNotSupportedError |-> "SMTPException",
     SMTPException |-> "OSError",
     ConnectionRefusedError |-> "ConnectionError",
     ConnectionResetError |-> "ConnectionError",
     ConnectionError |-> "OSError",
     gaierror |-> "OSError",
     OSError |-> "Exception",
     KeyError |-> "LookupError",
     LookupError |-> "Exception",
     Exception |-> "BaseException"]

\* isinstance(exc, cls), as an except clause tests it
RECURSIVE IsInstance(_, _)
IsInstance(exc, cls) ==
    IF exc = cls THEN TRUE
    ELSE IF exc \in DOMAIN ExcParent THEN IsInstance(ExcParent[exc], cls)
    ELSE FALSE

\* mutant: login is attempted before STARTTLS on the plaintext connection
SmtpStepsLoginFirst(port) ==
    IF port = SslPort
    THEN <<"SMTP_SSL", "login", "send_message", "quit">>
    ELSE <<"SMTP", "login", "starttls", "send_message", "quit">>

\* the SMTP calls of one send, in program order
SmtpSteps(port) ==
    IF port = SslPort
    THEN <<"SMTP_SSL", "login", "send_message", "quit">>
    ELSE <<"SMTP", "starttls", "login", "send_message", "quit">>

\* the step of the fault as a call name of this send
FaultCall(fault, port) ==
    IF fault.step = "connect"
    THEN (IF port = SslPort THEN "SMTP_SSL" ELSE "SMTP")
    ELSE fault.step

EmailSuccess ==
    [escaped |-> "None", success |-> TRUE, kind |-> "Email envoye avec succes",
     server |-> "", port |-> 0, detail |-> ""]
EmailFailure(kind, detail) ==
    [escaped |-> "None", success |-> FALSE, kind |-> kind,
     server |-> "", port |-> 0, detail |-> detail]

\* mutant: no clause for SMTPConnectError, which falls to the catch-all
EmailHandlersNoConnect(exc, config) ==
    IF IsInstance(exc, "SMTPAuthenticationError")
    THEN EmailFailure("Erreur d'authentification", "")
    ELSE IF IsInstance(exc, "SMTPServerDisconnected")
              \/ IsInstance(exc, "ConnectionError")
    THEN EmailFailure("Connexion interrompue", exc)
    ELSE IF IsInstance(exc, "Exception")
    THEN EmailFailure("Erreur lors de l'envoi", exc)
    ELSE [NoEmailResult EXCEPT !.escaped = exc]

\* the except clauses, tried in order
EmailHandlers(exc, config) ==
    IF IsInstance(exc, "SMTPAuthenticationError")
    THEN EmailFailure("Erreur d'authentification", "")
    ELSE IF IsInstance(exc, "SMTPConnectError")
    THEN [EmailFailure("Erreur de connexion au serveur SMTP", exc)
             EXCEPT !.server = config.smtp_server, !.port = config.smtp_port]
    ELSE IF IsInstance(exc, "SMTPServerDisconnected")
              \/ IsInstance(exc, "ConnectionError")
    THEN EmailFailure("Connexion interrompue", exc)
    ELSE IF IsInstance(exc, "Exception")
    THEN EmailFailure("Erreur lors de l'envoi", exc)
    ELSE [NoEmailResult EXCEPT !.escaped = exc]

\* the calls made up to and including the one named last
RECURSIVE CallsUpTo(_, _)
CallsUpTo(steps, last) ==
    IF steps = <<>> THEN <<>>
    ELSE IF Head(steps) = last THEN <<last>>
    ELSE <<Head(steps)>> \o CallsUpTo(Tail(steps), last)

\* to_email, subject and body only fill the message; fault is the failure
\* the SMTP transport produces during this call, if any
send_email_alert(to_email, subject, body, config, fault) ==
    IF ~config.present
    THEN [log |-> <<>>,
          result |-> EmailFailure("Configuration SMTP non definie", "")]
    ELSE IF ~config.has_from
    THEN [log |-> <<>>, result |-> EmailHandlers("KeyError", config)]
    ELSE LET steps == SmtpSteps(config.smtp_port)
             call == FaultCall(fault, config.smtp_port)
         IN  IF \E i \in 1..Len(steps) : steps[i] = call
             THEN [log |-> CallsUpTo(steps, call),
                   result |-> EmailHandlers(fault.exc, config)]
             ELSE [log |-> steps, result |-> EmailSuccess]

(***************************************************************************)
(* Email specification: one call of send_email_alert against a transport   *)
(* that may fail at one of its steps.                                      *)
(***************************************************************************)
SmtpServers == {"smtp.gmail.com", "smtp.office365.com"}
SmtpPorts == {SslPort, 587, 25}
SmtpConfigs ==
    {NoSmtpConfig} \cup
    [present : {TRUE}, has_from : BOOLEAN, smtp_server : SmtpServers,
     smtp_port : SmtpPorts, from_email : {"alerts@epitech.eu"},
     password : {"secret"}]

\* what smtplib and the socket layer raise at each step
FaultsAt(step) ==
    CASE step = "connect" ->
             {"SMTPConnectError", "SMTPServerDisconnected",
              "ConnectionRefusedError", "gaierror"}
      [] step = "starttls" ->
             {"SMTPNotSupportedError", "SMTPResponseException",
              "SMTPServerDisconnected"}
      [] step = "login" ->
             {"SMTPAuthenticationError", "SMTPNotSupportedError",
              "SMTPException", "SMTPServerDisconnected"}
      [] step = "send_message" ->
             {"SMTPRecipientsRefused", "SMTPDataError",
              "SMTPServerDisconnected", "ConnectionResetError"}
      [] step = "quit" -> {"SMTPServerDisconnected", "ConnectionResetError"}
SmtpFaults ==
    {NoFault} \cup
    UNION {{[step |-> st, exc |-> e] : e \in FaultsAt(st)} :
              st \in {"connect", "starttls", "login", "send_message", "quit"}}

InitEmail ==
    /\ pc = "email_start"
    /\ smtp_config \in SmtpConfigs
    /\ smtp_fault \in SmtpFaults
    /\ smtp_log = <<>>
    /\ email_result = NoEmailResult
    /\ df_row = <<>>
    /\ label_encoders = <<>>
    /\ feature_names = <<>>
    /\ scaler = NoScaler
    /\ feature_df = [exc |-> "None", val |-> <<>>]
    /\ model_calls = NoCalls
    /\ prediction = NoPrediction
    /\ risk_level = NoLevel
    /\ recommendations = NoRecommendations
    /\ TeamsIdle
    /\ SelectIdle
    /\ SendIdle
    /\ ScheduleIdle
    /\ SessionIdle

SendEmailAlert ==
    /\ pc = "email_start"
    /\ LET r == send_email_alert("staff@epitech.eu", "Alerte", "body",
                                 smtp_config, smtp_fault)
       IN  /\ smtp_log' = r.log
           /\ email_result' = r.result
    /\ pc' = "email_done"
    /\ UNCHANGED <<df_row, label_encoders, feature_names, scaler, feature_df,
                   model_calls, prediction, risk_level, recommendations,
                   smtp_config, smtp_fault>>
    /\ UNCHANGED <<teamsVars, selectVars, sendVars, scheduleVars,
                   sessionVars>>

NextEmail == SendEmailAlert

SpecEmail == InitEmail /\ [][NextEmail]_vars

(***************************************************************************)
(* Properties of the email specification.                                  *)
(***************************************************************************)
\* the transport's fault falls on a call this send makes: STARTTLS is not
\* used on the implicit-TLS port
FaultHits ==
    \/ smtp_fault.step \in {"connect", "login", "send_message", "quit"}
    \/ smtp_fault.step = "starttls" /\ smtp_config.smtp_port # 465

\* the exception the transport raised during the call, "None" if it did not
TransportRaised ==
    IF smtp_config.present /\ smtp_config.has_from /\ FaultHits
    THEN smtp_fault.exc
    ELSE "None"

C11_SmtpOrder ==
    pc = "email_done" =>
        /\ email_result.success =>
               smtp_log = IF smtp_config.smtp_port = 465
                          THEN <<"SMTP_SSL", "login", "send_message", "quit">>
                          ELSE <<"SMTP", "starttls", "login", "send_message",
                                 "quit">>
        /\ smtp_log # <<>> =>
               /\ smtp_log[1] \in {"SMTP_SSL", "SMTP"}
               /\ smtp_log[1] = "SMTP_SSL" <=> smtp_config.smtp_port = 465
        /\ \A i \in 1..Len(smtp_log) :
               /\ smtp_log[i] = "starttls" =>
                      \E j \in 1..(i - 1) : smtp_log[j] = "SMTP"
               /\ smtp_log[i] = "login" =>
                      \E j \in 1..(i - 1) :
                          smtp_log[j] \in {"SMTP_SSL", "starttls"}
               /\ smtp_log[i] = "send_message" =>
                      \E j \in 1..(i - 1) : smtp_log[j] = "login"
               /\ smtp_log[i] = "quit" =>
                      \E j \in 1..(i - 1) : smtp_log[j] = "send_message"

C11_Witness ==
    /\ pc = "email_done"
    /\ smtp_config.present
    /\ smtp_config.smtp_port = 587
    /\ email_result.success
    /\ smtp_log = <<"SMTP", "starttls", "login", "send_message", "quit">>

(***************************************************************************)
(* Notification Dispatcher, Teams channel: send_teams_webhook.             *)
(*                                                                         *)
(* A text is a sequence of lines.  A line carries the syntax the free-text *)
(* parser tests (kind: blank, kv for "key: value", bullet, dots, plain),   *)
(* its key or label, and a number v standing for the rest of its content.  *)
(* A structured message is the dict the orchestrator builds; its student   *)
(* entries carry an id and whether they hold every key the formatter reads.*)
(***************************************************************************)
\* at most this many student facts in a MessageCard
StudentFactCap == 15
\* at most this many characters of the response body in the error message
BodyCap == 200
\* seconds given to requests.post
PostTimeout == 10

Line(kind, key, v) == [kind |-> kind, key |-> key, v |-> v]
BlankLine == Line("blank", "", 0)

StrMessage(lines) == [NoMessage EXCEPT !.type = "str", !.lines = lines]
DictMessage(date, nombre, resume, etudiants, restants) ==
    [type |-> "dict", lines |-> <<>>, date |-> date,
     nombre_etudiants |-> nombre, resume |-> resume, etudiants |-> etudiants,
     etudiants_restants |-> restants]

\* dict.get(key, default) on an optional entry
Get(cell, default) == IF cell.has THEN cell.v ELSE default

\* the exception classes of the Teams channel, each with its base classes
RequestsExcBases ==
    [ReadTimeout |-> {"Timeout"},
     ConnectTimeout |-> {"RequestsConnectionError", "Timeout"},
     Timeout |-> {"RequestException"},
     SSLError |-> {"RequestsConnectionError"},
     RequestsConnectionError |-> {"RequestException"},
     MissingSchema |-> {"RequestException"},
     TooManyRedirects |-> {"RequestException"},
     RequestException |-> {"OSError"},
     OSError |-> {"Exception"},
     KeyError |-> {"Exception"},
     AttributeError |-> {"Exception"},
     Exception |-> {"BaseException"}]

\* isinstance(exc, cls) with multiple inheritance
RECURSIVE IsSubclass(_, _)
IsSubclass(exc, cls) ==
    \/ exc = cls
    \/ /\ exc \in DOMAIN RequestsExcBases
       /\ \E b \in RequestsExcBases[exc] : IsSubclass(b, cls)

\* the formatter reads id, programme, annee, emoji, score, note of an entry
EntryRaises(etudiants) ==
    \E i \in 1..Len(etudiants) : ~etudiants[i].complete

\* mutant: the Workflow text lists at most StudentFactCap students
WorkflowTextCapped(title, message) ==
    <<Line("plain", title, 0), BlankLine,
      Line("kv", "Date", message.date),
      Line("kv", "Nombre d'etudiants concernes", message.nombre_etudiants),
      BlankLine,
      Line("kv", "Resume", 0),
      Line("bullet", "Profils critiques", message.resume.critiques),
      Line("bullet", "Risque eleve", message.resume.eleve),
      Line("bullet", "Risque modere", message.resume.modere),
      BlankLine,
      Line("kv", "Liste des etudiants", 0)>>
    \o [i \in 1..Min(Len(message.etudiants), StudentFactCap) |->
            Line("bullet", "etudiant", message.etudiants[i].id)]
    \o (IF Get(message.etudiants_restants, 0) > 0
        THEN <<Line("dots", "autres", message.etudiants_restants.v)>>
        ELSE <<>>)
    \o <<BlankLine, Line("kv", "Action recommandee", 0)>>

\* lines 563-576: the text the Workflow branch builds from a dict
WorkflowText(title, message) ==
    <<Line("plain", title, 0), BlankLine,
      Line("kv", "Date", message.date),
      Line("kv", "Nombre d'etudiants concernes", message.nombre_etudiants),
      BlankLine,
      Line("kv", "Resume", 0),
      Line("bullet", "Profils critiques", message.resume.critiques),
      Line("bullet", "Risque eleve", message.resume.eleve),
      Line("bullet", "Risque modere", message.resume.modere),
      BlankLine,
      Line("kv", "Liste des etudiants", 0)>>
    \o [i \in 1..Len(message.etudiants) |->
            Line("bullet", "etudiant", message.etudiants[i].id)]
    \o (IF Get(message.etudiants_restants, 0) > 0
        THEN <<Line("dots", "autres", message.etudiants_restants.v)>>
        ELSE <<>>)
    \o <<BlankLine, Line("kv", "Action recommandee", 0)>>

WorkflowPayload(title, message, color) ==
    [title |-> title, message |-> message, color |-> color]

\* a section of a MessageCard: keys is the set of keys the dict holds
Fact(name, ref, value) == [name |-> name, ref |-> ref, value |-> value]
MainSection(title, subtitle, facts) ==
    [keys |-> {"activityTitle", "activitySubtitle", "facts"},
     activityTitle |-> title, activitySubtitle |-> subtitle, title |-> "",
     facts |-> facts, text |-> <<>>]
FactsSection(title, facts) ==
    [keys |-> {"title", "facts"}, activityTitle |-> "",
     activitySubtitle |-> 0, title |-> title, facts |-> facts, text |-> <<>>]
TextSection(title, text) ==
    [keys |-> {"title", "text"}, activityTitle |-> "", activitySubtitle |-> 0,
     title |-> title, facts |-> <<>>, text |-> text]

\* line 613: message.get('etudiants', [])[:15]
EtudiantsAffiches(message) ==
    SubSeq(message.etudiants, 1, Min(Len(message.etudiants), StudentFactCap))

\* lines 610-628: the facts of the student-list section
EtudiantsFacts(message) ==
    LET shown == EtudiantsAffiches(message)
    IN  [i \in 1..Len(shown) |-> Fact("etudiant", shown[i].id, shown[i].id)]
        \o (IF Get(message.etudiants_restants, 0) > 0
            THEN <<Fact("...", 0, message.etudiants_restants.v)>>
            ELSE <<>>)

\* lines 588-639: the sections built from a dict
SectionsFromDict(title, message) ==
    <<MainSection(title, message.date,
                  <<Fact("Nombre d'etudiants concernes :", 0,
                         message.nombre_etudiants)>>),
      FactsSection("Resume :",
                   <<Fact("Profils critiques", 0, message.resume.critiques),
                     Fact("Risque eleve", 0, message.resume.eleve),
                     Fact("Risque modere", 0, message.resume.modere)>>),
      FactsSection("Liste des etudiants :", EtudiantsFacts(message)),
      TextSection("Action recommandee :", <<Line("plain", "Contacter", 0)>>)>>

\* "Liste des etudiants" in key, "Action recommandee" in key
KeyHasListe(key) ==
    key \in {"Liste des etudiants", "Liste des etudiants a risque"}
KeyHasAction(key) ==
    key \in {"Action recommandee", "Action recommandee urgente"}

\* what the parser holds between two lines; sections are those after the
\* main one, current is the index of current_section among them (0: None)
ParserStart ==
    [facts |-> <<>>, sections |-> <<>>, current |-> 0, students_text |-> <<>>]

\* lines 665-705: one turn of the loop over the lines
ParseLine(line, acc) ==
    IF line.kind = "blank" THEN acc
    ELSE IF line.kind = "kv"
    THEN IF KeyHasListe(line.key)
         THEN [acc EXCEPT
                  !.sections = Append(@, TextSection("Liste des etudiants :",
                                                     <<>>)),
                  !.current = Len(acc.sections) + 1]
         ELSE IF KeyHasAction(line.key)
         THEN [acc EXCEPT
                  !.sections = Append(@, TextSection("Action recommandee :",
                                          <<Line("plain", "", line.v)>>))]
         ELSE [acc EXCEPT !.facts = Append(@, Fact(line.key, 0, line.v))]
    ELSE IF line.kind \in {"bullet", "dots"}
    THEN LET item == IF line.kind = "bullet"
                     THEN Line("plain", line.key, line.v)
                     ELSE line
         IN  IF acc.current # 0
             THEN [acc EXCEPT !.sections[acc.current].text = Append(@, item)]
             ELSE [acc EXCEPT !.students_text = Append(@, item)]
    ELSE acc

RECURSIVE ParseLines(_, _)
ParseLines(lines, acc) ==
    IF lines = <<>> THEN acc
    ELSE ParseLines(Tail(lines), ParseLine(Head(lines), acc))

\* lines 650-721: the sections built from a free text
SectionsFromText(title, message, now) ==
    LET acc == ParseLines(message.lines, ParserStart)
        \* line 708: the title compared is spelt without the colon
        found == \E i \in 1..Len(acc.sections) :
                     acc.sections[i].title = "Liste des etudiants"
        added == IF acc.students_text # <<>> /\ ~found
                 THEN Append(acc.sections,
                             TextSection("Liste des etudiants :",
                                         acc.students_text))
                 ELSE acc.sections
        \* lines 715-717
        filled == [i \in 1..Len(added) |->
                      IF /\ added[i].title = "Liste des etudiants"
                         /\ added[i].text = <<>>
                         /\ acc.students_text # <<>>
                      THEN [added[i] EXCEPT !.text = acc.students_text]
                      ELSE added[i]]
        main == MainSection(title, now, acc.facts)
    IN  IF acc.facts = <<>> /\ filled = <<>>
        THEN <<[main EXCEPT !.keys = @ \cup {"text"},
                            !.text = message.lines]>>
        ELSE <<main>> \o filled

MessageCard(title, color, sections) ==
    ("@type" :> "MessageCard") @@ ("@context" :> "http://schema.org/extensions")
    @@ ("themeColor" :> color) @@ ("summary" :> title)
    @@ ("sections" :> sections)

\* mutant: outside Workflow mode a free text is posted in the Workflow shape
BuildPayloadTextFlat(title, message, color, is_workflow, now) ==
    IF is_workflow
    THEN IF message.type = "dict"
         THEN IF EntryRaises(message.etudiants)
              THEN Raised("KeyError")
              ELSE Returned(WorkflowPayload(
                       title, StrMessage(WorkflowText(title, message)), color))
         ELSE Returned(WorkflowPayload(title, message, color))
    ELSE IF message.type = "dict"
    THEN IF EntryRaises(EtudiantsAffiches(message))
         THEN Raised("KeyError")
         ELSE Returned(MessageCard(title, color,
                                   SectionsFromDict(title, message)))
    ELSE IF message.type = "str"
    THEN Returned(WorkflowPayload(title, message, color))
    ELSE Raised("AttributeError")

\* lines 559-729: the payload, or the exception raised while building it
BuildPayload(title, message, color, is_workflow, now) ==
    IF is_workflow
    THEN IF message.type = "dict"
         THEN IF EntryRaises(message.etudiants)
              THEN Raised("KeyError")
              ELSE Returned(WorkflowPayload(
                       title, StrMessage(WorkflowText(title, message)), color))
         ELSE Returned(WorkflowPayload(title, message, color))
    ELSE IF message.type = "dict"
    THEN IF EntryRaises(EtudiantsAffiches(message))
         THEN Raised("KeyError")
         ELSE Returned(MessageCard(title, color,
                                   SectionsFromDict(title, message)))
    ELSE IF message.type = "str"
    THEN Returned(MessageCard(title, color,
                              SectionsFromText(title, message, now)))
    ELSE Raised("AttributeError")

TeamsSuccess ==
    [NoTeamsResult EXCEPT !.success = TRUE,
                          !.kind = "Alerte Teams envoyee avec succes"]
TeamsFailure(kind, detail) ==
    [NoTeamsResult EXCEPT !.kind = kind, !.detail = detail]

\* mutant: no clause for a timeout, which falls to the later clauses
TeamsHandlersNoTimeout(exc) ==
    IF IsSubclass(exc, "RequestsConnectionError")
    THEN TeamsFailure("Erreur de connexion", "")
    ELSE IF IsSubclass(exc, "Exception")
    THEN TeamsFailure("Erreur lors de l'envoi", exc)
    ELSE [NoTeamsResult EXCEPT !.escaped = exc]

\* lines 737-742: the except clauses, tried in order
TeamsHandlers(exc) ==
    IF IsSubclass(exc, "Timeout")
    THEN TeamsFailure("Timeout", "")
    ELSE IF IsSubclass(exc, "RequestsConnectionError")
    THEN TeamsFailure("Erreur de connexion", "")
    ELSE IF IsSubclass(exc, "Exception")
    THEN TeamsFailure("Erreur lors de l'envoi", exc)
    ELSE [NoTeamsResult EXCEPT !.escaped = exc]

\* mutant: every 2xx status counts as a success
TeamsResponseAny2xx(response) ==
    IF response.status_code \in 200..299
    THEN TeamsSuccess
    ELSE [TeamsFailure("Erreur HTTP", "")
             EXCEPT !.status_code = response.status_code,
                    !.text_len = Min(response.text_len, BodyCap)]

\* lines 733-736: the result read off the response
TeamsResponse(response) ==
    IF response.status_code \in {200, 201, 202, 204}
    THEN TeamsSuccess
    ELSE [TeamsFailure("Erreur HTTP", "")
             EXCEPT !.status_code = response.status_code,
                    !.text_len = Min(response.text_len, BodyCap)]

\* now is what datetime.now() gives, outcome what requests.post does
send_teams_webhook(webhook_url, title, message, color, is_workflow, now, outcome) ==
    LET built == BuildPayload(title, message, color, is_workflow, now)
        post == [url |-> webhook_url, json |-> built.val,
                 timeout |-> PostTimeout]
    IN  IF built.exc # "None"
        THEN [posts |-> <<>>, result |-> TeamsHandlers(built.exc)]
        ELSE IF outcome.exc # "None"
        THEN [posts |-> <<post>>, result |-> TeamsHandlers(outcome.exc)]
        ELSE [posts |-> <<post>>, result |-> TeamsResponse(outcome)]

(***************************************************************************)
(* Teams specification: one call of send_teams_webhook with a structured   *)
(* or free-text message against an endpoint that answers or fails.         *)
(***************************************************************************)
\* a structured message lists at most MaxEtudiants students
MaxEtudiants == 21
\* its etudiants_restants entry, when present, is at most MaxRestants
MaxRestants == 5
\* a free text has at most MaxLines lines
MaxLines == 3

Etudiants(n, broken) ==
    [i \in 1..n |-> [id |-> i, complete |-> ~(broken /\ i = n)]]
ResumeOf(n) ==
    [critiques |-> n \div 3, eleve |-> n \div 3, modere |-> n - 2 * (n \div 3)]
RestantsCells == {Missing} \cup {Cell(r) : r \in 0..MaxRestants}
DictMessages ==
    {DictMessage(1, n + Get(r, 0), ResumeOf(n + Get(r, 0)),
                 Etudiants(n, b), r) :
        n \in 0..MaxEtudiants, b \in BOOLEAN, r \in RestantsCells}
LineSamples ==
    {BlankLine, Line("kv", "Date", 1), Line("kv", "Liste des etudiants", 0),
     Line("kv", "Action recommandee", 2), Line("bullet", "etudiant", 3),
     Line("dots", "autres", 4), Line("plain", "texte", 0)}
StrMessages ==
    {StrMessage(t) : t \in UNION {[1..k -> LineSamples] : k \in 0..MaxLines}}
TeamsMessages == DictMessages \cup StrMessages \cup {NoMessage}

HttpResponse(status, len) ==
    [exc |-> "None", status_code |-> status, text_len |-> len]
HttpFaults ==
    {"ReadTimeout", "ConnectTimeout", "RequestsConnectionError", "SSLError",
     "MissingSchema", "TooManyRedirects"}
HttpOutcomes ==
    {HttpResponse(st, 1) : st \in {200, 201, 202, 204}}
    \cup {HttpResponse(st, len) :
             st \in {203, 400, 500},
             len \in {0, BodyCap - Delta, BodyCap, BodyCap + Delta}}
    \cup {[NoHttpOutcome EXCEPT !.exc = e] : e \in HttpFaults}

ScoringIdle ==
    /\ df_row = <<>>
    /\ label_encoders = <<>>
    /\ feature_names = <<>>
    /\ scaler = NoScaler
    /\ feature_df = [exc |-> "None", val |-> <<>>]
    /\ model_calls = NoCalls
    /\ prediction = NoPrediction
    /\ risk_level = NoLevel
    /\ recommendations = NoRecommendations
EmailIdle ==
    /\ smtp_config = NoSmtpConfig
    /\ smtp_fault = NoFault
    /\ smtp_log = <<>>
    /\ email_result = NoEmailResult
scoringVars == <<df_row, label_encoders, feature_names, scaler, feature_df,
                 model_calls, prediction, risk_level, recommendations>>
emailVars == <<smtp_config, smtp_fault, smtp_log, email_result>>

InitTeams ==
    /\ pc = "teams_start"
    /\ \E msg \in TeamsMessages, wf \in BOOLEAN :
         teams_call = [webhook_url |-> "https://teams.example/hook",
                       title |-> "Alerte Decrochage", message |-> msg,
                       color |-> "FF0000", is_workflow |-> wf, now |-> 1]
    /\ http_outcome \in HttpOutcomes
    /\ http_posts = <<>>
    /\ teams_result = NoTeamsResult
    /\ ScoringIdle
    /\ EmailIdle
    /\ SelectIdle
    /\ SendIdle
    /\ ScheduleIdle
    /\ SessionIdle

SendTeamsWebhook ==
    /\ pc = "teams_start"
    /\ LET r == send_teams_webhook(teams_call.webhook_url, teams_call.title,
                                   teams_call.message, teams_call.color,
                                   teams_call.is_workflow, teams_call.now,
                                   http_outcome)
       IN  /\ http_posts' = r.posts
           /\ teams_result' = r.result
    /\ pc' = "teams_done"
    /\ UNCHANGED <<teams_call, http_outcome>>
    /\ UNCHANGED <<scoringVars, emailVars, selectVars, sendVars,
                   scheduleVars, sessionVars>>

NextTeams == SendTeamsWebhook

SpecTeams == InitTeams /\ [][NextTeams]_vars

(***************************************************************************)
(* Properties of the Teams specification.                                  *)
(***************************************************************************)
\* C12: one call of send_teams_webhook makes at most one HTTP POST; it
\* returns success exactly when a response came back with status 200, 201,
\* 202 or 204; for any other status it returns (False, message) where the
\* message carries the status code and at most the first 200 characters of
\* the response body.
C12_OnePostStatusDecides ==
    pc = "teams_done" =>
        /\ Len(http_posts) <= 1
        /\ teams_result.success <=>
               /\ Len(http_posts) = 1
               /\ http_outcome.exc = "None"
               /\ http_outcome.status_code \in {200, 201, 202, 204}
        /\ ( /\ Len(http_posts) = 1
             /\ http_outcome.exc = "None"
             /\ http_outcome.status_code \notin {200, 201, 202, 204} ) =>
               /\ teams_result.escaped = "None"
               /\ teams_result.kind = "Erreur HTTP"
               /\ teams_result.status_code = http_outcome.status_code
               /\ teams_result.text_len <= 200
               /\ teams_result.text_len <= http_outcome.text_len
               /\ http_outcome.text_len <= 200 =>
                      teams_result.text_len = http_outcome.text_len

C12_Witness ==
    /\ pc = "teams_done"
    /\ Len(http_posts) = 1
    /\ http_outcome.status_code = 500
    /\ http_outcome.text_len > 200
    /\ ~teams_result.success
    /\ teams_result.status_code = 500
    /\ teams_result.text_len = 200

\* an entry the payload builder formats lacks a key, or the message is
\* neither a dict nor a text the MessageCard builder can split
PayloadRaised ==
    LET msg == teams_call.message
        formatted == IF teams_call.is_workflow THEN Len(msg.etudiants)
                     ELSE Min(Len(msg.etudiants), 15)
    IN  \/ /\ msg.type = "dict"
           /\ \E i \in 1..formatted : ~msg.etudiants[i].complete
        \/ msg.type = "none" /\ ~teams_call.is_workflow

\* the exception raised inside the call, "None" if there was none
TeamsRaised ==
    IF PayloadRaised
    THEN (IF teams_call.message.type = "dict" THEN "KeyError"
          ELSE "AttributeError")
    ELSE http_outcome.exc

\* C13: send_teams_webhook lets no exception escape, whether it is raised
\* while the payload is built or during the POST: it returns (False,
\* message), with one message for a timeout, another for a connection
\* failure and another for any other failure.
C13_TeamsFailuresReported ==
    pc = "teams_done" =>
        /\ teams_result.escaped = "None"
        /\ teams_result.kind # ""
        /\ TeamsRaised # "None" => ~teams_result.success
        /\ PayloadRaised => http_posts = <<>>
        /\ TeamsRaised \in {"ReadTimeout", "ConnectTimeout"} =>
               teams_result.kind = "Timeout"
        /\ TeamsRaised \in {"RequestsConnectionError", "SSLError"} =>
               teams_result.kind = "Erreur de connexion"
        /\ TeamsRaised \in {"MissingSchema", "TooManyRedirects", "KeyError",
                            "AttributeError"} =>
               /\ teams_result.kind = "Erreur lors de l'envoi"
               /\ teams_result.detail = TeamsRaised

C13_Witness ==
    /\ pc = "teams_done"
    /\ teams_call.is_workflow
    /\ teams_call.message.type = "dict"
    /\ PayloadRaised
    /\ http_posts = <<>>
    /\ teams_result.escaped = "None"
    /\ ~teams_result.success
    /\ teams_result.kind = "Erreur lors de l'envoi"

\* the facts of the section titled "Liste des etudiants :" in the posted card
PostedListFacts == http_posts[1].json["sections"][3].facts
PostedStudentFacts ==
    {i \in 1..Len(PostedListFacts) : PostedListFacts[i].name = "etudiant"}
PostedMoreFacts ==
    {i \in 1..Len(PostedListFacts) : PostedListFacts[i].name = "..."}

\* C14: in webhook mode, for a structured message listing n students, the
\* student-list section holds min(n, 15) student facts, and when n > 15
\* exactly one more fact, placed last, reporting the n - 15 students not
\* shown; when n <= 15 it holds no such fact.
C14_ListCappedWithRemainder ==
    ( /\ pc = "teams_done"
      /\ ~teams_call.is_workflow
      /\ teams_call.message.type = "dict"
      /\ Len(http_posts) = 1 ) =>
        LET n == Len(teams_call.message.etudiants)
        IN  /\ Cardinality(PostedStudentFacts) = Min(n, 15)
            /\ n > 15 =>
                   /\ Len(PostedListFacts) = 16
                   /\ PostedMoreFacts = {16}
                   /\ PostedListFacts[16].value = n - 15
            /\ n <= 15 => PostedMoreFacts = {}

\* the text posted as "message" in Workflow mode, and its parts
PostedText == http_posts[1].json.message.lines
IsStudentLine(l) == l.kind = "bullet" /\ l.key = "etudiant"
IsMoreLine(l) == l.kind = "dots"
HasLine(kind, key, v) ==
    \E i \in 1..Len(PostedText) : PostedText[i] = Line(kind, key, v)
WorkflowStructuredPosted ==
    /\ pc = "teams_done"
    /\ teams_call.is_workflow
    /\ teams_call.message.type = "dict"
    /\ Len(http_posts) = 1
\* date, student count and the three tier sub-counts are in the text
SummaryHeadPosted ==
    LET msg == teams_call.message
    IN  /\ http_posts[1].json.message.type = "str"
        /\ HasLine("kv", "Date", msg.date)
        /\ HasLine("kv", "Nombre d'etudiants concernes", msg.nombre_etudiants)
        /\ HasLine("bullet", "Profils critiques", msg.resume.critiques)
        /\ HasLine("bullet", "Risque eleve", msg.resume.eleve)
        /\ HasLine("bullet", "Risque modere", msg.resume.modere)
\* a message that is not a dict is posted as it was given
PassedThrough ==
    ( /\ pc = "teams_done"
      /\ teams_call.is_workflow
      /\ teams_call.message.type # "dict" ) =>
        /\ Len(http_posts) = 1
        /\ http_posts[1].json.message = teams_call.message

\* C15 as stated: in Workflow mode with structured data the posted message
\* is a plain-text summary with the date, the student count, the three tier
\* sub-counts, student lines whose number never exceeds a fixed cap (20, the
\* largest list limit of the program) and a "+N more" suffix when students
\* were left out; without structured data the caller's message is passed
\* through unchanged.
C15_WorkflowSummaryCapped ==
    /\ WorkflowStructuredPosted =>
           /\ SummaryHeadPosted
           /\ Len(SelectSeq(PostedText, IsStudentLine)) <= 20
           /\ Get(teams_call.message.etudiants_restants, 0) > 0 =>
                  Len(SelectSeq(PostedText, IsMoreLine)) = 1
    /\ PassedThrough

\* C15, amended: in Workflow mode with structured data the posted message
\* is a plain-text summary with the date, the student count, the three tier
\* sub-counts and one student line for every entry of the data's student
\* list, in order, with no cap applied; a "+N more" line follows exactly
\* when the data's etudiants_restants count N is positive; without
\* structured data the caller's message is passed through unchanged.
C15_WorkflowSummaryUncapped ==
    /\ WorkflowStructuredPosted =>
           LET msg == teams_call.message
               students == SelectSeq(PostedText, IsStudentLine)
               more == SelectSeq(PostedText, IsMoreLine)
           IN  /\ SummaryHeadPosted
               /\ Len(students) = Len(msg.etudiants)
               /\ \A i \in 1..Len(students) :
                      students[i].v = msg.etudiants[i].id
               /\ IF Get(msg.etudiants_restants, 0) > 0
                  THEN more = <<Line("dots", "autres",
                                     msg.etudiants_restants.v)>>
                  ELSE more = <<>>
    /\ PassedThrough

C15_Witness ==
    /\ WorkflowStructuredPosted
    /\ Len(teams_call.message.etudiants) > 20
    /\ Len(SelectSeq(PostedText, IsStudentLine)) > 20
    /\ teams_call.message.etudiants_restants = Cell(1)
    /\ Len(SelectSeq(PostedText, IsMoreLine)) = 1

\* C16: the shape of the posted payload depends on is_workflow alone: in
\* Workflow mode it has exactly the keys title, message and color, otherwise
\* it is a MessageCard with exactly the keys @type, @context, themeColor,
\* summary and sections, for a structured message as for a free text.
C16_ShapeByModeAlone ==
    (pc = "teams_done" /\ Len(http_posts) = 1) =>
        LET json == http_posts[1].json
        IN  IF teams_call.is_workflow
            THEN /\ DOMAIN json = {"title", "message", "color"}
                 /\ json.title = teams_call.title
                 /\ json.color = teams_call.color
            ELSE /\ DOMAIN json = {"@type", "@context", "themeColor",
                                   "summary", "sections"}
                 /\ json["@type"] = "MessageCard"
                 /\ json["themeColor"] = teams_call.color
                 /\ json["summary"] = teams_call.title
                 /\ Len(json["sections"]) >= 1

C16_Witness ==
    /\ pc = "teams_done"
    /\ ~teams_call.is_workflow
    /\ teams_call.message.type = "str"
    /\ Len(teams_call.message.lines) = 3
    /\ Len(http_posts) = 1
    /\ DOMAIN http_posts[1].json = {"@type", "@context", "themeColor",
                                    "summary", "sections"}
    /\ Len(http_posts[1].json["sections"]) = 3

(***************************************************************************)
(* Alert Orchestrator, student selection: the sidebar filters and the      *)
(* selection mode of the alert tab.                                        *)
(***************************************************************************)
Student(id, programme, annee, score) ==
    [id_etudiant |-> id, programme |-> programme, annee_etude |-> annee,
     risque_score |-> score]

\* lines 247-251: the programme and year filters
FilterProgramme(df, selected_programme) ==
    IF selected_programme # "Tous"
    THEN SelectSeq(df, LAMBDA r : r.programme = selected_programme)
    ELSE df
FilterAnnee(df, selected_annee) ==
    IF selected_annee # 0
    THEN SelectSeq(df, LAMBDA r : r.annee_etude = selected_annee)
    ELSE df

\* lines 253-260: the risk-level filter
FilterNiveau(df, niveau_risque) ==
    CASE niveau_risque = "Critique" ->
             SelectSeq(df, LAMBDA r : r.risque_score >= SeuilCritique)
      [] niveau_risque = "Eleve" ->
             SelectSeq(df, LAMBDA r : /\ r.risque_score >= SeuilEleve
                                      /\ r.risque_score < SeuilCritique)
      [] niveau_risque = "Modere" ->
             SelectSeq(df, LAMBDA r : /\ r.risque_score >= SeuilModere
                                      /\ r.risque_score < SeuilEleve)
      [] niveau_risque = "Faible" ->
             SelectSeq(df, LAMBDA r : r.risque_score < SeuilModere)
      [] OTHER -> df

\* lines 244-260
ApplySidebar(df, filters) ==
    FilterNiveau(FilterAnnee(FilterProgramme(df, filters.programme),
                             filters.annee),
                 filters.niveau)

\* sort_values('risque_score', ascending=False); equal scores keep their order
RECURSIVE InsertByScore(_, _)
InsertByScore(r, sorted) ==
    IF sorted = <<>> THEN <<r>>
    ELSE IF Head(sorted).risque_score >= r.risque_score
    THEN <<Head(sorted)>> \o InsertByScore(r, Tail(sorted))
    ELSE <<r>> \o sorted
RECURSIVE SortByScore(_)
SortByScore(df) ==
    IF df = <<>> THEN <<>>
    ELSE InsertByScore(df[Len(df)], SortByScore(SubSeq(df, 1, Len(df) - 1)))

\* mutant: a score of exactly 0.30 is not at risk
DfAlertesStrict(filtered) ==
    SortByScore(SelectSeq(filtered, LAMBDA r : r.risque_score > SeuilModere))

\* lines 911-912
DfAlertes(filtered) ==
    SortByScore(SelectSeq(filtered, LAMBDA r : r.risque_score >= SeuilModere))

Ids(df) == {df[i].id_etudiant : i \in 1..Len(df)}

\* lines 922-934
SelectedStudents(df_alertes, mode, selected_ids) ==
    IF mode = "Tous les etudiants a risque" THEN df_alertes
    ELSE IF mode = "Critiques uniquement"
    THEN SelectSeq(df_alertes, LAMBDA r : r.risque_score >= SeuilCritique)
    ELSE SelectSeq(df_alertes, LAMBDA r : r.id_etudiant \in selected_ids)

(***************************************************************************)
(* Selection specification: a dataset of scored students, one choice of    *)
(* the sidebar filters, then one choice of the selection mode.             *)
(***************************************************************************)
\* students in the dataset
MaxDataset == 3

Programmes == {"Programme Grande Ecole", "Bachelor"}
Annees == {1, 2}
ScoreSamples ==
    {SeuilModere - Delta, SeuilModere, SeuilEleve - Delta, SeuilEleve,
     SeuilCritique - Delta, SeuilCritique}
\* student i: programmes alternate, the first two students are in year 1
Datasets ==
    {[i \in 1..MaxDataset |->
         Student(i, IF i % 2 = 1 THEN "Programme Grande Ecole" ELSE "Bachelor",
                 IF i <= 2 THEN 1 ELSE 2, score[i])] :
        score \in [1..MaxDataset -> ScoreSamples]}
Sidebars ==
    [programme : {"Tous"} \cup Programmes, annee : {0} \cup Annees,
     niveau : {"Tous", "Critique", "Eleve", "Modere", "Faible"}]
SelectionModes ==
    {"Tous les etudiants a risque", "Critiques uniquement",
     "Selection manuelle"}

DispatchIdle ==
    /\ ScoringIdle
    /\ EmailIdle
    /\ TeamsIdle

InitSelect ==
    /\ pc = "select_start"
    /\ df_with_predictions \in Datasets
    /\ sidebar = NoSidebar
    /\ df_filtered = <<>>
    /\ selection = NoSelection
    /\ selected_students = <<>>
    /\ DispatchIdle
    /\ SendIdle
    /\ ScheduleIdle
    /\ SessionIdle

\* lines 236-260: the sidebar widgets are read and the filters applied
ApplyFilters ==
    /\ pc = "select_start"
    /\ \E filters \in Sidebars :
         /\ sidebar' = filters
         /\ df_filtered' = ApplySidebar(df_with_predictions, filters)
    /\ pc' = "filtered"
    /\ UNCHANGED <<df_with_predictions, selection, selected_students>>
    /\ UNCHANGED <<scoringVars, emailVars, teamsVars, sendVars,
                   scheduleVars, sessionVars>>

\* lines 910-934: the selection widgets are shown and read when some
\* filtered student is at risk; manual choices come from the ids listed
SelectStudents ==
    /\ pc = "filtered"
    /\ LET df_alertes == DfAlertes(df_filtered)
       IN  /\ Len(df_alertes) > 0
           /\ \E mode \in SelectionModes :
                \E selected_ids \in (IF mode = "Selection manuelle"
                                     THEN SUBSET Ids(df_alertes) ELSE {{}}) :
                  /\ selection' = [mode |-> mode, ids |-> selected_ids]
                  /\ selected_students' =
                         SelectedStudents(df_alertes, mode, selected_ids)
    /\ pc' = "selected"
    /\ UNCHANGED <<df_with_predictions, sidebar, df_filtered>>
    /\ UNCHANGED <<scoringVars, emailVars, teamsVars, sendVars,
                   scheduleVars, sessionVars>>

NextSelect == ApplyFilters \/ SelectStudents

SpecSelect == InitSelect /\ [][NextSelect]_vars

(***************************************************************************)
(* Properties of the selection specification.                              *)
(***************************************************************************)
\* the student passes the three sidebar filters
PassesSidebar(r) ==
    /\ sidebar.programme \in {"Tous", r.programme}
    /\ sidebar.annee \in {0, r.annee_etude}
    /\ \/ sidebar.niveau = "Tous"
       \/ sidebar.niveau = "Critique" /\ r.risque_score >= 7000
       \/ sidebar.niveau = "Eleve" /\ r.risque_score >= 5000
                                   /\ r.risque_score < 7000
       \/ sidebar.niveau = "Modere" /\ r.risque_score >= 3000
                                    /\ r.risque_score < 5000
       \/ sidebar.niveau = "Faible" /\ r.risque_score < 3000
DatasetStudents ==
    {df_with_predictions[i] : i \in 1..Len(df_with_predictions)}
TargetedIds == Ids(selected_students)
NoDuplicateTarget == Cardinality(TargetedIds) = Len(selected_students)

\* C17 as stated: the targeted set is, for "all at-risk", every student of
\* the dataset with score >= 0.30; for "critical only", every student of the
\* dataset with score >= 0.70; for manual selection, exactly the students
\* whose identifiers were chosen.
C17_TargetsFromDataset ==
    pc = "selected" =>
        /\ NoDuplicateTarget
        /\ selection.mode = "Tous les etudiants a risque" =>
               TargetedIds = {r.id_etudiant : r \in
                                 {x \in DatasetStudents :
                                     x.risque_score >= 3000}}
        /\ selection.mode = "Critiques uniquement" =>
               TargetedIds = {r.id_etudiant : r \in
                                 {x \in DatasetStudents :
                                     x.risque_score >= 7000}}
        /\ selection.mode = "Selection manuelle" =>
               TargetedIds = selection.ids

\* C17, amended: the targeted set is, for "all at-risk", every student of
\* the dataset that passes the sidebar filters (programme, year, risk
\* level) and has score >= 0.30; for "critical only", every student that
\* passes the sidebar filters and has score >= 0.70; for manual selection,
\* exactly the students whose identifiers were chosen, the choice being
\* offered among the filtered students with score >= 0.30.
C17_TargetsFromFilteredView ==
    pc = "selected" =>
        /\ NoDuplicateTarget
        /\ selection.mode = "Tous les etudiants a risque" =>
               TargetedIds = {r.id_etudiant : r \in
                                 {x \in DatasetStudents :
                                     /\ PassesSidebar(x)
                                     /\ x.risque_score >= 3000}}
        /\ selection.mode = "Critiques uniquement" =>
               TargetedIds = {r.id_etudiant : r \in
                                 {x \in DatasetStudents :
                                     /\ PassesSidebar(x)
                                     /\ x.risque_score >= 7000}}
        /\ selection.mode = "Selection manuelle" =>
               /\ TargetedIds = selection.ids
               /\ \A r \in DatasetStudents :
                      r.id_etudiant \in selection.ids =>
                          PassesSidebar(r) /\ r.risque_score >= 3000

C17_Witness ==
    /\ pc = "selected"
    /\ selection.mode = "Critiques uniquement"
    /\ sidebar.programme = "Bachelor"
    /\ Len(selected_students) = 1
    /\ \E r \in DatasetStudents :
           /\ r.risque_score >= 7000
           /\ r.programme # "Bachelor"
           /\ r.id_etudiant \notin TargetedIds

(***************************************************************************)
(* Alert Orchestrator, send handler: the run of the alert tab in which     *)
(* "Envoyer maintenant" was clicked.  The run composes the email body,     *)
(* then the handler processes the email channel and the Teams channel.     *)
(***************************************************************************)
\* at most this many students in the structured Teams message
TeamsListCap == 20

\* mutant: the moderate tier leaves out a score of exactly 0.30
ResumeModereStrict(selected) ==
    [critiques |->
         Len(SelectSeq(selected, LAMBDA r : r.risque_score >= SeuilCritique)),
     eleve |->
         Len(SelectSeq(selected, LAMBDA r : /\ r.risque_score >= SeuilEleve
                                            /\ r.risque_score < SeuilCritique)),
     modere |->
         Len(SelectSeq(selected, LAMBDA r : /\ r.risque_score > SeuilModere
                                            /\ r.risque_score < SeuilEleve))]

\* the tier sub-counts, as the three len(...) expressions compute them
Resume(selected) ==
    [critiques |->
         Len(SelectSeq(selected, LAMBDA r : r.risque_score >= SeuilCritique)),
     eleve |->
         Len(SelectSeq(selected, LAMBDA r : /\ r.risque_score >= SeuilEleve
                                            /\ r.risque_score < SeuilCritique)),
     modere |->
         Len(SelectSeq(selected, LAMBDA r : /\ r.risque_score >= SeuilModere
                                            /\ r.risque_score < SeuilEleve))]

\* one table row or list entry per student
Entries(selected) ==
    [i \in 1..Len(selected) |->
        [id |-> selected[i].id_etudiant, complete |-> TRUE]]

\* lines 964-1010: the email body, automatic (HTML, one table row for every
\* selected student) or the text typed in the text area
MessageBody(message_template, selected, now, custom_message) ==
    IF message_template = "Automatique"
    THEN [type |-> "html", lines |-> <<>>, date |-> now,
          nombre_etudiants |-> Len(selected), resume |-> Resume(selected),
          etudiants |-> Entries(selected), etudiants_restants |-> Missing]
    ELSE custom_message

\* lines 1094-1106: the text sent in Workflow mode
TeamsWorkflowMessage(alert_title, selected, now) ==
    StrMessage(
        <<BlankLine, Line("plain", alert_title, 0), BlankLine,
          Line("kv", "Date", now),
          Line("kv", "Nombre d'etudiants concernes", Len(selected)),
          BlankLine,
          Line("kv", "Resume", 0),
          Line("bullet", "Profils critiques", Resume(selected).critiques),
          Line("bullet", "Risque eleve", Resume(selected).eleve),
          Line("bullet", "Risque modere", Resume(selected).modere),
          BlankLine,
          Line("kv", "Action recommandee", 0), BlankLine>>)

\* lines 1109-1142: the dict sent in webhook mode
TeamsWebhookMessage(selected, now) ==
    DictMessage(now, Len(selected), Resume(selected),
                Entries(SubSeq(selected, 1, Min(Len(selected), TeamsListCap))),
                IF Len(selected) > TeamsListCap
                THEN Cell(Len(selected) - TeamsListCap)
                ELSE Missing)

\* lines 1064-1084: the email channel; fault is what the SMTP transport does
EmailChannel(form, body, fault) ==
    IF form.alert_type \notin {"Email", "Les deux"}
    THEN [called |-> FALSE, warning |-> ""]
    ELSE IF /\ form.from_email # ""
            /\ form.email_password # ""
            /\ form.recipient_email # ""
    THEN LET config == [present |-> TRUE, has_from |-> TRUE,
                        smtp_server |-> form.smtp_server,
                        smtp_port |-> form.smtp_port,
                        from_email |-> form.from_email,
                        password |-> form.email_password]
             r == send_email_alert(form.recipient_email, form.alert_title,
                                   body, config, fault)
         IN  [called |-> TRUE, warning |-> "", config |-> config,
              call |-> [to_email |-> form.recipient_email,
                        subject |-> form.alert_title, body |-> body],
              log |-> r.log, result |-> r.result]
    ELSE [called |-> FALSE, warning |-> "Configuration email incomplete"]

\* lines 1086-1151: the Teams channel; outcome is what requests.post does
TeamsChannel(form, selected, now, outcome) ==
    IF form.alert_type \notin {"Microsoft Teams", "Les deux"}
    THEN [called |-> FALSE, warning |-> ""]
    ELSE IF form.teams_webhook # ""
    THEN LET is_workflow == form.teams_type = "Workflow HTTP"
             teams_message ==
                 IF is_workflow
                 THEN TeamsWorkflowMessage(form.alert_title, selected, now)
                 ELSE TeamsWebhookMessage(selected, now)
             r == send_teams_webhook(form.teams_webhook, form.alert_title,
                                     teams_message, "FF0000", is_workflow,
                                     now, outcome)
         IN  [called |-> TRUE, warning |-> "",
              call |-> [webhook_url |-> form.teams_webhook,
                        title |-> form.alert_title,
                        message |-> teams_message, color |-> "FF0000",
                        is_workflow |-> is_workflow, now |-> now],
              posts |-> r.posts, result |-> r.result]
    ELSE [called |-> FALSE, warning |-> "URL webhook Teams non configuree"]

\* what one channel adds to success_count, error_messages, warnings, calls
ReportChannel(report, name, channel) ==
    IF channel.called
    THEN [report EXCEPT
             !.calls = Append(@, name),
             !.success_count = IF channel.result.success THEN @ + 1 ELSE @,
             !.error_messages = IF channel.result.success THEN @
                                ELSE Append(@, [channel |-> name,
                                                kind |-> channel.result.kind])]
    ELSE IF channel.warning # ""
    THEN [report EXCEPT !.warnings = Append(@, channel.warning)]
    ELSE report

\* mutant: the Teams channel is skipped once the email send has failed
send_nowStopOnFailure(form, selected, body, fault, now, outcome) ==
    LET email == EmailChannel(form, body, fault)
        teams == IF email.called /\ ~email.result.success
                 THEN [called |-> FALSE, warning |-> ""]
                 ELSE TeamsChannel(form, selected, now, outcome)
    IN  [email |-> email, teams |-> teams,
         report |-> ReportChannel(ReportChannel(NoSendReport, "Email", email),
                                  "Teams", teams)]

\* lines 1060-1159: email first, then Teams
send_now(form, selected, body, fault, now, outcome) ==
    LET email == EmailChannel(form, body, fault)
        teams == TeamsChannel(form, selected, now, outcome)
    IN  [email |-> email, teams |-> teams,
         report |-> ReportChannel(ReportChannel(NoSendReport, "Email", email),
                                  "Teams", teams)]

(***************************************************************************)
(* Send specification: a filled alert form and a selection of students,    *)
(* then one click on "Envoyer maintenant".                                 *)
(***************************************************************************)
\* students selected for the alert
MaxSelected == 21

\* n students, highest score first: a third critical, a third high, the
\* others moderate
SelectedOf(n) ==
    [i \in 1..n |->
        Student(i, "Bachelor", 1,
                IF i <= n \div 3 THEN SeuilCritique
                ELSE IF i <= 2 * (n \div 3) THEN SeuilEleve
                ELSE SeuilModere)]
SelectedLists == {SelectedOf(n) : n \in 1..MaxSelected}

\* the widgets of a channel that is not chosen are not shown
AlertForms ==
    {f \in [alert_type : {"Email", "Microsoft Teams", "Les deux"},
            smtp_server : {"", "smtp.gmail.com"},
            smtp_port : {0, 587},
            from_email : {"", "alerts@epitech.eu"},
            email_password : {"", "secret"},
            recipient_email : {"", "staff@epitech.eu"},
            teams_type : {"", "Webhook", "Workflow HTTP"},
            teams_webhook : {"", "https://teams.example/hook"},
            alert_title : {"Alerte Decrochage"},
            message_template : {"Automatique", "Personnalise"}] :
        /\ IF f.alert_type \in {"Email", "Les deux"}
           THEN f.smtp_port = 587
           ELSE /\ f.smtp_server = ""
                /\ f.smtp_port = 0
                /\ f.from_email = ""
                /\ f.email_password = ""
                /\ f.recipient_email = ""
        /\ IF f.alert_type \in {"Microsoft Teams", "Les deux"}
           THEN f.teams_type # ""
           ELSE f.teams_type = "" /\ f.teams_webhook = ""}

\* the minutes datetime.now() can fall in during one run
Minutes == {1, 2}
CustomMessages == {StrMessage(<<Line("plain", "texte", 0)>>)}
\* with no host given, smtplib opens no connection and the first command
\* raises SMTPServerDisconnected
SendFaults(form) ==
    IF form.smtp_server = ""
    THEN {[step |-> "starttls", exc |-> "SMTPServerDisconnected"]}
    ELSE {NoFault, [step |-> "login", exc |-> "SMTPAuthenticationError"],
          [step |-> "connect", exc |-> "SMTPConnectError"]}
SendOutcomes ==
    {HttpResponse(200, 1), HttpResponse(500, BodyCap + Delta),
     [NoHttpOutcome EXCEPT !.exc = "ReadTimeout"]}

InitSend ==
    /\ pc = "send_start"
    /\ alert_form \in AlertForms
    /\ selected_students \in SelectedLists
    /\ message_body = NoMessage
    /\ email_call = NoEmailCall
    /\ send_report = NoSendReport
    /\ df_with_predictions = <<>>
    /\ sidebar = NoSidebar
    /\ df_filtered = <<>>
    /\ selection = NoSelection
    /\ DispatchIdle
    /\ ScheduleIdle
    /\ SessionIdle

SendNow ==
    /\ pc = "send_start"
    /\ \E t1 \in Minutes, custom \in CustomMessages,
          fault \in SendFaults(alert_form), outcome \in SendOutcomes :
         \E t2 \in {t \in Minutes : t >= t1},
            body \in {MessageBody(alert_form.message_template,
                                  selected_students, t1, custom)} :
           \E r \in {send_now(alert_form, selected_students, body, fault, t2,
                              outcome)} :
               /\ message_body' = body
               /\ send_report' = r.report
               /\ IF r.email.called
                  THEN /\ smtp_config' = r.email.config
                       /\ smtp_fault' = fault
                       /\ smtp_log' = r.email.log
                       /\ email_result' = r.email.result
                       /\ email_call' = r.email.call
                  ELSE UNCHANGED <<emailVars, email_call>>
               /\ IF r.teams.called
                  THEN /\ teams_call' = r.teams.call
                       /\ http_outcome' = outcome
                       /\ http_posts' = r.teams.posts
                       /\ teams_result' = r.teams.result
                  ELSE UNCHANGED teamsVars
    /\ pc' = "sent"
    /\ UNCHANGED <<alert_form, selected_students, df_with_predictions,
                   sidebar, df_filtered, selection>>
    /\ UNCHANGED <<scoringVars, scheduleVars, sessionVars>>

NextSend == SendNow

SpecSend == InitSend /\ [][NextSend]_vars

(***************************************************************************)
(* Properties of the send specification.                                   *)
(***************************************************************************)
EmailEnabled == alert_form.alert_type \in {"Email", "Les deux"}
TeamsEnabled == alert_form.alert_type \in {"Microsoft Teams", "Les deux"}
\* the fields the handler tests before it sends
EmailGuardPasses ==
    /\ alert_form.from_email # ""
    /\ alert_form.email_password # ""
    /\ alert_form.recipient_email # ""
TeamsGuardPasses == alert_form.teams_webhook # ""
EmailInvoked == email_call # NoEmailCall
TeamsInvoked == teams_call # NoTeamsCall
Successes ==
    (IF EmailInvoked /\ email_result.success THEN 1 ELSE 0)
    + (IF TeamsInvoked /\ teams_result.success THEN 1 ELSE 0)
ErrorChannels ==
    [i \in 1..Len(send_report.error_messages) |->
        send_report.error_messages[i].channel]

\* C19: with both channels enabled and configured, one send invokes each
\* dispatcher exactly once, email first and then Teams, and invokes Teams
\* whatever the email send returned; the two outcomes are reported
\* separately and the success counter is the number of channels that
\* returned success.
C19_BothChannelsInOrder ==
    ( /\ pc = "sent"
      /\ alert_form.alert_type = "Les deux"
      /\ EmailGuardPasses
      /\ TeamsGuardPasses ) =>
        /\ send_report.calls = <<"Email", "Teams">>
        /\ EmailInvoked
        /\ email_call.to_email = alert_form.recipient_email
        /\ email_result.kind # ""
        /\ TeamsInvoked
        /\ teams_call.webhook_url = alert_form.teams_webhook
        /\ teams_result.kind # ""
        /\ send_report.warnings = <<>>
        /\ send_report.success_count = Successes
        /\ ErrorChannels =
               (IF email_result.success THEN <<>> ELSE <<"Email">>)
               \o (IF teams_result.success THEN <<>> ELSE <<"Teams">>)

C19_Witness ==
    /\ pc = "sent"
    /\ alert_form.alert_type = "Les deux"
    /\ send_report.calls = <<"Email", "Teams">>
    /\ ~email_result.success
    /\ email_result.kind = "Erreur d'authentification"
    /\ teams_result.success
    /\ Len(http_posts) = 1
    /\ send_report.success_count = 1
    /\ ErrorChannels = <<"Email">>

\* every field the email channel requires is filled
EmailConfigComplete ==
    /\ alert_form.smtp_server # ""
    /\ alert_form.smtp_port # 0
    /\ EmailGuardPasses
HasWarning(w) ==
    \E i \in 1..Len(send_report.warnings) : send_report.warnings[i] = w

\* C20: an enabled channel with a required configuration field missing or
\* empty (email: server host, port, sender address, password, recipient;
\* Teams: webhook URL) gets no send attempt and is reported as
\* configuration-incomplete, and the other enabled channel is still
\* processed.
C20_IncompleteConfigSkipped ==
    pc = "sent" =>
        /\ (EmailEnabled /\ ~EmailConfigComplete) =>
               /\ ~EmailInvoked
               /\ smtp_log = <<>>
               /\ HasWarning("Configuration email incomplete")
               /\ (TeamsEnabled /\ TeamsGuardPasses) => TeamsInvoked
        /\ (TeamsEnabled /\ ~TeamsGuardPasses) =>
               /\ ~TeamsInvoked
               /\ http_posts = <<>>
               /\ HasWarning("URL webhook Teams non configuree")
               /\ (EmailEnabled /\ EmailConfigComplete) => EmailInvoked

\* what each channel was handed: timestamp, student count, tier sub-counts
\* and student ids, read off the email body and off the Teams message
LineValue(lines, key, default) ==
    IF \E i \in 1..Len(lines) : lines[i].key = key
    THEN lines[CHOOSE i \in 1..Len(lines) : lines[i].key = key].v
    ELSE default
EmailContent ==
    LET body == email_call.body
    IN  [date |-> body.date, nombre_etudiants |-> body.nombre_etudiants,
         resume |-> body.resume,
         ids |-> [i \in 1..Len(body.etudiants) |-> body.etudiants[i].id],
         automatic |-> body.type = "html"]
TeamsContent ==
    LET msg == teams_call.message
    IN  IF msg.type = "dict"
        THEN [date |-> msg.date, nombre_etudiants |-> msg.nombre_etudiants,
              resume |-> msg.resume,
              ids |-> [i \in 1..Len(msg.etudiants) |-> msg.etudiants[i].id],
              automatic |-> TRUE]
        ELSE [date |-> LineValue(msg.lines, "Date", 0),
              nombre_etudiants |->
                  LineValue(msg.lines, "Nombre d'etudiants concernes", 0),
              resume |->
                  [critiques |-> LineValue(msg.lines, "Profils critiques", 0),
                   eleve |-> LineValue(msg.lines, "Risque eleve", 0),
                   modere |-> LineValue(msg.lines, "Risque modere", 0)],
              ids |-> <<>>,
              automatic |-> TRUE]

\* C18: in one send with both channels enabled, one alert payload is built
\* and both channels deliver it: the email channel and the Teams channel
\* are handed the same title, the same body content, the same list of
\* targeted students and the same timestamp.
C18_SamePayloadBothChannels ==
    ( /\ pc = "sent"
      /\ alert_form.alert_type = "Les deux"
      /\ EmailInvoked
      /\ TeamsInvoked ) =>
        /\ email_call.subject = teams_call.title
        /\ EmailContent = TeamsContent
        /\ EmailContent.ids =
               [i \in 1..Len(selected_students) |->
                   selected_students[i].id_etudiant]

(***************************************************************************)
(* Release of the SMTP connection.                                         *)
(***************************************************************************)
\* the connect call of this send returned a connection
ConnectionOpened == Len(smtp_log) >= 2 \/ (smtp_log # <<>> /\ email_result.success)

\* C27: on every return path of send_email_alert an SMTP connection that
\* was opened has been closed: when starttls, login or send_message fails
\* after the connection was established, quit is called before the function
\* returns its failure result.
C27_ConnectionClosed ==
    (pc = "email_done" /\ ConnectionOpened) =>
        smtp_log[Len(smtp_log)] = "quit"

(***************************************************************************)
(* Sections of the card built from a free text.                            *)
(***************************************************************************)
\* a free text was posted as a MessageCard
FreeTextCardPosted ==
    /\ pc = "teams_done"
    /\ ~teams_call.is_workflow
    /\ teams_call.message.type = "str"
    /\ Len(http_posts) = 1
FreeTextLines == teams_call.message.lines
CardSections == http_posts[1].json["sections"]
SectionsTitled(t) == {i \in 1..Len(CardSections) : CardSections[i].title = t}
InText(item, text) == \E k \in 1..Len(text) : text[k] = item

\* every bullet line is in the text of a student-list section, and a text
\* with no key/value, bullet or ellipsis line is carried whole by the header
BulletsListedOrPassedThrough ==
    /\ \A k \in 1..Len(FreeTextLines) :
           FreeTextLines[k].kind = "bullet" =>
               \E i \in SectionsTitled("Liste des etudiants :") :
                   InText(Line("plain", FreeTextLines[k].key,
                               FreeTextLines[k].v),
                          CardSections[i].text)
    /\ (\A k \in 1..Len(FreeTextLines) :
            FreeTextLines[k].kind \notin {"kv", "bullet", "dots"}) =>
           /\ Len(CardSections) = 1
           /\ "text" \in CardSections[1].keys
           /\ CardSections[1].text = FreeTextLines

\* C30: for every free-text message given to send_teams_webhook in webhook
\* mode, the card has at most one section titled "Liste des etudiants :"
\* and at most one titled "Action recommandee :", every bullet line of the
\* message appears in the text of the student-list section, and when no
\* key/value line and no bullet or ellipsis line is found the header
\* section carries the whole message as its text.
C30_FreeTextSections ==
    FreeTextCardPosted =>
        /\ Cardinality(SectionsTitled("Liste des etudiants :")) <= 1
        /\ Cardinality(SectionsTitled("Action recommandee :")) <= 1
        /\ BulletsListedOrPassedThrough

(***************************************************************************)
(* The student list of the card a send action posts in webhook mode.       *)
(***************************************************************************)
\* the send handler posted a MessageCard built from its dict
WebhookCardSent ==
    /\ pc = "sent"
    /\ TeamsInvoked
    /\ ~teams_call.is_workflow
    /\ Len(http_posts) = 1
\* the number the trailing fact announces, 0 when the fact is absent
AnnouncedMore ==
    IF PostedMoreFacts = {} THEN 0
    ELSE PostedListFacts[CHOOSE i \in PostedMoreFacts : TRUE].value
ShownIds == {PostedListFacts[i].ref : i \in PostedStudentFacts}
TargetScore(id) ==
    selected_students[CHOOSE i \in 1..Len(selected_students) :
                          selected_students[i].id_etudiant = id].risque_score
\* the students shown are targets, the best-scored ones, listed by
\* non-increasing score
ShownAreTopByScore ==
    /\ ShownIds \subseteq TargetedIds
    /\ \A s \in ShownIds : \A t \in TargetedIds \ ShownIds :
           TargetScore(s) >= TargetScore(t)
    /\ \A i, j \in PostedStudentFacts :
           i < j => TargetScore(PostedListFacts[i].ref)
                        >= TargetScore(PostedListFacts[j].ref)

\* C28: for every send action in Teams webhook mode targeting N students,
\* the number of student facts shown in the card plus the number announced
\* by the trailing "autre(s) etudiant(s)" fact (0 when the fact is absent)
\* equals N, and the students shown are those with the highest risk scores
\* among the targets, in non-increasing score order.
C28_ShownPlusAnnounced ==
    WebhookCardSent =>
        /\ Cardinality(PostedStudentFacts) + AnnouncedMore
               = Len(selected_students)
        /\ ShownAreTopByScore

\* the order and origin of the students shown, without the count
C28_ShownOrder == WebhookCardSent => ShownAreTopByScore

(***************************************************************************)
(* Alert specification: the page filtered by risk level, the selection and *)
(* then one send action on the students selected, with the automatic       *)
(* message and both channels configured and answering.                     *)
(***************************************************************************)
SelectionForms ==
    {f \in AlertForms :
        /\ f.alert_type = "Les deux"
        /\ f.message_template = "Automatique"
        /\ f.smtp_server # ""
        /\ f.from_email # ""
        /\ f.email_password # ""
        /\ f.recipient_email # ""
        /\ f.teams_webhook # ""}

\* lines 936-1159: the form and the send button are shown only when some
\* student is selected; one click of the button, the run falling in minute 1
SendSelected ==
    /\ pc = "selected"
    /\ Len(selected_students) > 0
    /\ \E form \in SelectionForms, custom \in CustomMessages :
         \E body \in {MessageBody(form.message_template, selected_students,
                                  1, custom)} :
           \E r \in {send_now(form, selected_students, body, NoFault, 1,
                              HttpResponse(200, 1))} :
               /\ alert_form' = form
               /\ message_body' = body
               /\ send_report' = r.report
               /\ smtp_config' = r.email.config
               /\ smtp_fault' = NoFault
               /\ smtp_log' = r.email.log
               /\ email_result' = r.email.result
               /\ email_call' = r.email.call
               /\ teams_call' = r.teams.call
               /\ http_outcome' = HttpResponse(200, 1)
               /\ http_posts' = r.teams.posts
               /\ teams_result' = r.teams.result
    /\ pc' = "alerted"
    /\ UNCHANGED <<selected_students, df_with_predictions, sidebar,
                   df_filtered, selection>>
    /\ UNCHANGED <<scoringVars, scheduleVars, sessionVars>>

\* the alert tab of a page whose sidebar filters by risk level only
InitAlert ==
    /\ pc = "filtered"
    /\ df_with_predictions \in Datasets
    /\ sidebar \in {f \in Sidebars : f.programme = "Tous" /\ f.annee = 0}
    /\ df_filtered = ApplySidebar(df_with_predictions, sidebar)
    /\ selection = NoSelection
    /\ selected_students = <<>>
    /\ DispatchIdle
    /\ SendIdle
    /\ ScheduleIdle
    /\ SessionIdle

NextAlert == SelectStudents \/ SendSelected

SpecAlert == InitAlert /\ [][NextAlert]_vars

(***************************************************************************)
(* Properties of the alert specification.                                  *)
(***************************************************************************)
SumOf(resume) == resume.critiques + resume.eleve + resume.modere
\* the count and the sub-counts the Teams message announces
TeamsAnnounced ==
    LET msg == teams_call.message
    IN  IF msg.type = "dict"
        THEN [nombre |-> msg.nombre_etudiants, somme |-> SumOf(msg.resume)]
        ELSE [nombre |-> LineValue(msg.lines, "Nombre d'etudiants concernes",
                                   0 - 1),
              somme |-> LineValue(msg.lines, "Profils critiques", 0 - 1)
                        + LineValue(msg.lines, "Risque eleve", 0 - 1)
                        + LineValue(msg.lines, "Risque modere", 0 - 1)]

\* C29: for every alert built by a send action, the three tier sub-counts
\* of the summary (critical, high, moderate) sum to the announced number of
\* targeted students, every targeted student having score >= 0.30 in every
\* selection mode; and no send action happens on an empty target set.
C29_TiersSumToTargets ==
    pc = "alerted" =>
        /\ Len(selected_students) > 0
        /\ \A i \in 1..Len(selected_students) :
               selected_students[i].risque_score >= SeuilModere
        /\ message_body.type = "html" =>
               /\ message_body.nombre_etudiants = Len(selected_students)
               /\ SumOf(message_body.resume) = message_body.nombre_etudiants
        /\ TeamsInvoked
        /\ TeamsAnnounced.nombre = Len(selected_students)
        /\ TeamsAnnounced.somme = TeamsAnnounced.nombre

C29_Witness ==
    /\ pc = "alerted"
    /\ selection.mode = "Selection manuelle"
    /\ Len(selected_students) = 2
    /\ selected_students[1].risque_score = SeuilEleve
    /\ selected_students[2].risque_score = SeuilModere
    /\ message_body.type = "html"
    /\ message_body.resume = [critiques |-> 0, eleve |-> 1, modere |-> 1]
    /\ teams_call.message.type = "dict"
    /\ teams_call.message.nombre_etudiants = 2

(***************************************************************************)
(* Schedule specification: the alert tab with its recurring-alert form;    *)
(* each run of the tab follows one click, on "Envoyer maintenant" or on    *)
(* "Enregistrer la programmation".                                         *)
(***************************************************************************)
\* students selected on the tab of the schedule specification
MaxScheduled == 2

Weekday(n) == [unit |-> "weekday", v |-> n]
MonthDay(n) == [unit |-> "monthday", v |-> n]
TimeOfDay(h, m) == [hour |-> h, minute |-> m]
\* lines 1023-1043: the checkbox, the frequency and the widgets it shows;
\* schedule_day is not assigned for a daily alert
ScheduleForms ==
    {NoScheduleForm}
    \cup {[schedule_alert |-> TRUE, frequency |-> "Quotidienne",
           schedule_day |-> NoDay, schedule_time |-> t] :
             t \in {TimeOfDay(9, 0), TimeOfDay(18, 30)}}
    \cup {[schedule_alert |-> TRUE, frequency |-> "Hebdomadaire",
           schedule_day |-> Weekday(d), schedule_time |-> TimeOfDay(9, 0)] :
             d \in {1, 5}}
    \cup {[schedule_alert |-> TRUE, frequency |-> "Mensuelle",
           schedule_day |-> MonthDay(d), schedule_time |-> TimeOfDay(9, 0)] :
             d \in {1, 28}}

\* str(schedule_time) of a datetime.time: "HH:MM:SS"
StrOfTime(t) == [hh |-> t.hour, mm |-> t.minute, ss |-> 0]

\* lines 1163-1170: the dict that is saved
ScheduleConfig(form, sched, selected, body) ==
    [frequency |-> sched.frequency,
     time |-> StrOfTime(sched.schedule_time),
     alert_type |-> form.alert_type,
     students |-> [i \in 1..Len(selected) |-> selected[i].id_etudiant],
     title |-> form.alert_title,
     message |-> body]

\* what opening and writing the file can do
WriteOutcomes == {"written", "open_failed", "write_failed"}

\* lines 1172-1178: the file is opened for writing, which empties it, and
\* the dict is dumped; any exception is caught and displayed
WriteSchedule(config, file, io) ==
    IF io = "written"
    THEN [file |-> [state |-> "written", doc |-> config],
          report |-> "Programmation enregistree"]
    ELSE IF io = "open_failed"
    THEN [file |-> file, report |-> "Erreur lors de l'enregistrement"]
    ELSE [file |-> [state |-> "partial", doc |-> NoDocument],
          report |-> "Erreur lors de l'enregistrement"]

NotRun == [ran |-> FALSE]

\* mutant: the send block also runs on a click on the save button
alert_tab_runSaveSends(click, form, sched, selected, body, fault, now, outcome, file, io) ==
    [sent |-> IF click \in {"send_now", "save_schedule"}
              THEN [ran |-> TRUE,
                    r |-> send_now(form, selected, body, fault, now, outcome)]
              ELSE NotRun,
     saved |-> IF click = "save_schedule" /\ sched.schedule_alert
               THEN [ran |-> TRUE,
                     r |-> WriteSchedule(ScheduleConfig(form, sched, selected,
                                                        body), file, io)]
               ELSE NotRun]

\* lines 1060-1178: the two handlers of the tab, if send_now and then
\* if save_schedule and schedule_alert
alert_tab_run(click, form, sched, selected, body, fault, now, outcome, file, io) ==
    [sent |-> IF click = "send_now"
              THEN [ran |-> TRUE,
                    r |-> send_now(form, selected, body, fault, now, outcome)]
              ELSE NotRun,
     saved |-> IF click = "save_schedule" /\ sched.schedule_alert
               THEN [ran |-> TRUE,
                     r |-> WriteSchedule(ScheduleConfig(form, sched, selected,
                                                        body), file, io)]
               ELSE NotRun]

\* forms with every field of the chosen channels filled
FilledForms ==
    {f \in AlertForms :
        /\ f.alert_type \in {"Email", "Les deux"} =>
               /\ f.smtp_server # ""
               /\ f.from_email # ""
               /\ f.email_password # ""
               /\ f.recipient_email # ""
        /\ f.alert_type \in {"Microsoft Teams", "Les deux"} =>
               f.teams_webhook # ""}
\* a button is True in the run its click triggers and in no other; the
\* save button exists only while the checkbox is ticked
Clicks(sched) ==
    {"send_now"} \cup (IF sched.schedule_alert THEN {"save_schedule"} ELSE {})

InitSchedule ==
    /\ pc = "alert_tab"
    /\ alert_form \in FilledForms
    /\ selected_students \in {SelectedOf(n) : n \in 1..MaxScheduled}
    /\ schedule_form \in ScheduleForms
    /\ schedule_file = NoScheduleFile
    /\ save_report = ""
    /\ message_body = NoMessage
    /\ email_call = NoEmailCall
    /\ send_report = NoSendReport
    /\ df_with_predictions = <<>>
    /\ sidebar = NoSidebar
    /\ df_filtered = <<>>
    /\ selection = NoSelection
    /\ DispatchIdle
    /\ SessionIdle

\* one run of the tab after a click; the transports and the file system
\* act only in the run that uses them
AlertTabRun ==
    /\ pc = "alert_tab"
    /\ \E click \in Clicks(schedule_form), now \in Minutes,
          custom \in CustomMessages :
        \E fault \in (IF click = "send_now" THEN SendFaults(alert_form)
                      ELSE {NoFault}),
           outcome \in (IF click = "send_now" THEN SendOutcomes
                        ELSE {NoHttpOutcome}),
           io \in (IF click = "save_schedule" THEN WriteOutcomes
                   ELSE {"written"}) :
         \E body \in {MessageBody(alert_form.message_template,
                                  selected_students, now, custom)} :
           \E r \in {alert_tab_run(click, alert_form, schedule_form,
                                   selected_students, body, fault, now,
                                   outcome, schedule_file, io)} :
               /\ message_body' = body
               /\ page_run' = [trigger |-> click, outcome |-> "rendered"]
               /\ IF r.sent.ran
                  THEN send_report' = r.sent.r.report
                  ELSE UNCHANGED send_report
               /\ IF r.sent.ran /\ r.sent.r.email.called
                  THEN /\ smtp_config' = r.sent.r.email.config
                       /\ smtp_fault' = fault
                       /\ smtp_log' = r.sent.r.email.log
                       /\ email_result' = r.sent.r.email.result
                       /\ email_call' = r.sent.r.email.call
                  ELSE UNCHANGED <<emailVars, email_call>>
               /\ IF r.sent.ran /\ r.sent.r.teams.called
                  THEN /\ teams_call' = r.sent.r.teams.call
                       /\ http_outcome' = outcome
                       /\ http_posts' = r.sent.r.teams.posts
                       /\ teams_result' = r.sent.r.teams.result
                  ELSE UNCHANGED teamsVars
               /\ IF r.saved.ran
                  THEN /\ schedule_file' = r.saved.r.file
                       /\ save_report' = r.saved.r.report
                  ELSE UNCHANGED <<schedule_file, save_report>>
    /\ UNCHANGED <<pc, alert_form, schedule_form, selectVars>>
    /\ UNCHANGED <<scoringVars, deployment, df_dataset, session_state,
                   predict_calls>>

NextSchedule == AlertTabRun

SpecSchedule == InitSchedule /\ [][NextSchedule]_vars

(***************************************************************************)
(* Properties of the schedule specification.                               *)
(***************************************************************************)
\* C23: saving a schedule and sending an alert are independent actions: a
\* run triggered by the save button writes the schedule descriptor (or
\* reports that it could not) and invokes no email or Teams dispatcher, so
\* the outcome of an alert already sent stays as it was, also when the
\* write fails; a run triggered by the send button never writes the
\* schedule file.
C23_SaveAndSendIndependent ==
    [][/\ page_run'.trigger = "save_schedule" =>
              /\ UNCHANGED <<emailVars, teamsVars, email_call, send_report>>
              /\ save_report' \in {"Programmation enregistree",
                                   "Erreur lors de l'enregistrement"}
              /\ save_report' = "Programmation enregistree" =>
                     /\ schedule_file'.state = "written"
                     /\ schedule_file'.doc.message = message_body'
              /\ save_report' = "Erreur lors de l'enregistrement" =>
                     \/ schedule_file' = schedule_file
                     \/ schedule_file'.state = "partial"
       /\ page_run'.trigger = "send_now" =>
              UNCHANGED <<schedule_file, save_report>>]_vars

C23_Witness ==
    /\ page_run.trigger = "save_schedule"
    /\ save_report = "Erreur lors de l'enregistrement"
    /\ schedule_file.state = "partial"
    /\ send_report.success_count = 2
    /\ send_report.calls = <<"Email", "Teams">>
    /\ email_result.success
    /\ teams_result.success

\* the schedule read back from the document: json.load, the time of day
\* parsed from "HH:MM:SS", the day taken from the document when it holds one
ReadSchedule(doc) ==
    [frequency |-> doc.frequency,
     time |-> TimeOfDay(doc.time.hh, doc.time.mm),
     day |-> IF "schedule_day" \in DOMAIN doc THEN doc["schedule_day"]
             ELSE NoDay,
     alert_type |-> doc.alert_type, students |-> doc.students,
     title |-> doc.title, message |-> doc.message]
\* the run that just ended saved the schedule
ScheduleSaved ==
    /\ page_run.trigger = "save_schedule"
    /\ save_report = "Programmation enregistree"
    /\ schedule_file.state = "written"
\* every field the handler writes reads back as configured
WrittenFieldsReadBack ==
    LET read == ReadSchedule(schedule_file.doc)
    IN  /\ read.frequency = schedule_form.frequency
        /\ read.time = schedule_form.schedule_time
        /\ read.alert_type = alert_form.alert_type
        /\ read.students = [i \in 1..Len(selected_students) |->
                               selected_students[i].id_etudiant]
        /\ read.title = alert_form.alert_title
        /\ read.message = message_body

\* C24: for every schedule the user can configure (daily, weekly with a day
\* of the week, monthly with a day of the month), persisting the
\* ScheduleConfig and re-reading it yields every field equal to what was
\* configured: frequency, time of day, day of week or day of month, channel
\* selection, target student identifiers, title and body.
C24_ScheduleRoundTrip ==
    ScheduleSaved =>
        /\ WrittenFieldsReadBack
        /\ ReadSchedule(schedule_file.doc).day = schedule_form.schedule_day

\* the fields other than the day
C24_WrittenFieldsRoundTrip == ScheduleSaved => WrittenFieldsReadBack

(***************************************************************************)
(* Session specification: the runs of the page in one browser session.     *)
(* Every run executes the script from the top: it loads the dataset and    *)
(* the artifacts, scores the dataset when the session holds no             *)
(* predictions, merges and renders.  The files do not change while the     *)
(* application runs.                                                       *)
(***************************************************************************)
\* students in the dataset file
MaxStudents == 2

DatasetFile == "dataset_epitech_bordeaux_decrochage.csv"
RequiredArtifacts ==
    <<"modele_decrochage.pkl", "modele_risque_score.pkl",
      "label_encoders.pkl", "feature_names.pkl">>
ScalerFile == "scaler.pkl"
FileNames ==
    {DatasetFile, ScalerFile}
    \cup {RequiredArtifacts[i] : i \in 1..Len(RequiredArtifacts)}

Row(i) == [id_etudiant |-> i, programme |-> "Bachelor", annee_etude |-> 1]
\* the files present, the rows of the dataset file, the score the models
\* give each row, and the row on which a model raises (0: none)
Deployments ==
    UNION {[files : SUBSET FileNames,
            rows : {[i \in 1..n |-> Row(i)]},
            scores : [1..n -> {SeuilModere - Delta, SeuilCritique}],
            raising_row : 0..n] : n \in 1..MaxStudents}

\* lines 92-99: (df, None), or (None, message) when the file is missing
load_data(dep) ==
    IF DatasetFile \in dep.files
    THEN [loaded |-> TRUE, df |-> dep.rows]
    ELSE [loaded |-> FALSE, df |-> <<>>]

\* mutant: a missing scaler is a missing model
load_modelsScalerRequired(dep) ==
    IF \E i \in 1..Len(RequiredArtifacts) : RequiredArtifacts[i] \notin dep.files
    THEN [loaded |-> FALSE, scaler |-> "None"]
    ELSE IF ScalerFile \in dep.files
    THEN [loaded |-> TRUE, scaler |-> "scaler"]
    ELSE [loaded |-> FALSE, scaler |-> "None"]

\* lines 101-117: the four artifacts are loaded in turn and the first
\* missing one gives (None, message); a missing scaler gives scaler = None
load_models(dep) ==
    IF \E i \in 1..Len(RequiredArtifacts) : RequiredArtifacts[i] \notin dep.files
    THEN [loaded |-> FALSE, scaler |-> "None"]
    ELSE IF ScalerFile \in dep.files
    THEN [loaded |-> TRUE, scaler |-> "scaler"]
    ELSE [loaded |-> TRUE, scaler |-> "None"]

\* the dict appended for one student
Assessment(dep, i) ==
    [id_etudiant |-> dep.rows[i].id_etudiant, risque_score |-> dep.scores[i]]
PredictCall(dep, i, loaded_scaler) ==
    [id_etudiant |-> dep.rows[i].id_etudiant, scaler |-> loaded_scaler]

\* mutant: the score is written into the row that was scored
ScoringPassWritesRows(dep, rows, loaded_scaler) ==
    LET last == IF dep.raising_row \in 1..Len(rows) THEN dep.raising_row
                ELSE Len(rows)
        done == IF dep.raising_row \in 1..Len(rows) THEN dep.raising_row - 1
                ELSE Len(rows)
    IN  [rows |-> [i \in 1..Len(rows) |->
                      IF i <= done
                      THEN [id_etudiant |-> rows[i].id_etudiant,
                            programme |-> rows[i].programme,
                            annee_etude |-> rows[i].annee_etude,
                            risque_score |-> dep.scores[i]]
                      ELSE rows[i]],
         predictions |-> [i \in 1..done |-> Assessment(dep, i)],
         calls |-> [i \in 1..last |-> PredictCall(dep, i, loaded_scaler)],
         raised |-> dep.raising_row \in 1..Len(rows)]

\* lines 212-223: the key is set to an empty list, then every row is scored
\* and its assessment appended; an exception of predict_risk ends the loop
\* and the run; the rows are only read
ScoringPass(dep, rows, loaded_scaler) ==
    LET last == IF dep.raising_row \in 1..Len(rows) THEN dep.raising_row
                ELSE Len(rows)
        done == IF dep.raising_row \in 1..Len(rows) THEN dep.raising_row - 1
                ELSE Len(rows)
    IN  [rows |-> rows,
         predictions |-> [i \in 1..done |-> Assessment(dep, i)],
         calls |-> [i \in 1..last |-> PredictCall(dep, i, loaded_scaler)],
         raised |-> dep.raising_row \in 1..Len(rows)]

\* mutant: the dataset is scored again in every run
script_runAlwaysScores(dep, session, calls) ==
    LET data == load_data(dep)
        models == load_models(dep)
        pass == ScoringPass(dep, data.df, models.scaler)
    IN  IF ~data.loaded
        THEN [df |-> <<>>, session_state |-> session, calls |-> calls,
              outcome |-> "stopped_no_data"]
        ELSE IF ~models.loaded
        THEN [df |-> data.df, session_state |-> session, calls |-> calls,
              outcome |-> "stopped_no_models"]
        ELSE [df |-> pass.rows,
              session_state |-> [has_predictions |-> TRUE,
                                 predictions |-> pass.predictions],
              calls |-> calls \o pass.calls,
              outcome |-> IF pass.raised \/ pass.predictions = <<>>
                          THEN "raised" ELSE "rendered"]

\* lines 198-227: one run of the script up to the merge; with an empty
\* predictions list the merge on id_etudiant raises KeyError
script_run(dep, session, calls) ==
    LET data == load_data(dep)
        models == load_models(dep)
        pass == ScoringPass(dep, data.df, models.scaler)
    IN  IF ~data.loaded
        THEN [df |-> <<>>, session_state |-> session, calls |-> calls,
              outcome |-> "stopped_no_data"]
        ELSE IF ~models.loaded
        THEN [df |-> data.df, session_state |-> session, calls |-> calls,
              outcome |-> "stopped_no_models"]
        ELSE IF ~session.has_predictions
        THEN [df |-> pass.rows,
              session_state |-> [has_predictions |-> TRUE,
                                 predictions |-> pass.predictions],
              calls |-> calls \o pass.calls,
              outcome |-> IF pass.raised \/ pass.predictions = <<>>
                          THEN "raised" ELSE "rendered"]
        ELSE [df |-> data.df, session_state |-> session, calls |-> calls,
              outcome |-> IF session.predictions = <<>>
                          THEN "raised" ELSE "rendered"]

\* what starts a run: the page is opened or reloaded, or a widget of the
\* page the last run rendered is used
Triggers(last) ==
    IF last = NoPageRun THEN {"open"}
    ELSE IF last.outcome = "rendered"
    THEN {"rerun", "filter", "select", "send_now", "save_schedule"}
    ELSE {"rerun"}

InitSession ==
    /\ pc = "page"
    /\ deployment \in Deployments
    /\ df_dataset = <<>>
    /\ session_state = NoSessionState
    /\ predict_calls = <<>>
    /\ page_run = NoPageRun
    /\ DispatchIdle
    /\ SelectIdle
    /\ SendIdle
    /\ ScheduleIdle

PageRun ==
    /\ pc = "page"
    /\ \E trigger \in Triggers(page_run) :
         \E r \in {script_run(deployment, session_state, predict_calls)} :
           /\ df_dataset' = r.df
           /\ session_state' = r.session_state
           /\ predict_calls' = r.calls
           /\ page_run' = [trigger |-> trigger, outcome |-> r.outcome]
    /\ UNCHANGED <<pc, deployment>>
    /\ UNCHANGED <<scoringVars, emailVars, teamsVars, selectVars, sendVars,
                   scheduleVars>>

\* a new browser session: st.session_state starts empty; what load_data
\* returned stays cached in the process
SessionReset ==
    /\ pc = "page"
    /\ page_run # NoPageRun
    /\ session_state' = NoSessionState
    /\ predict_calls' = <<>>
    /\ page_run' = NoPageRun
    /\ UNCHANGED <<pc, deployment, df_dataset>>
    /\ UNCHANGED <<scoringVars, emailVars, teamsVars, selectVars, sendVars,
                   scheduleVars>>

NextSession == PageRun \/ SessionReset

SpecSession == InitSession /\ [][NextSession]_vars

(***************************************************************************)
(* Properties of the session specification.                                *)
(***************************************************************************)
RequiredPresent ==
    \A i \in 1..Len(RequiredArtifacts) :
        RequiredArtifacts[i] \in deployment.files
DatasetPresent == DatasetFile \in deployment.files
\* the cache holds exactly one assessment for every student of the dataset
CacheComplete ==
    /\ Len(session_state.predictions) = Len(deployment.rows)
    /\ \A i \in 1..Len(deployment.rows) :
           Cardinality({k \in 1..Len(session_state.predictions) :
                           session_state.predictions[k].id_etudiant
                               = deployment.rows[i].id_etudiant}) = 1

\* C21: within a session the models are invoked for scoring only during
\* the first run that reaches the scoring loop: once the session holds the
\* predictions key, no later run (filter change, student selection, send,
\* save schedule) calls predict_risk or changes a cached assessment, until
\* the session state is reset.
C21_ScoredOncePerSession ==
    [][/\ (session_state.has_predictions /\ session_state'.has_predictions)
              => /\ predict_calls' = predict_calls
                 /\ session_state' = session_state
       /\ (predict_calls' # predict_calls /\ page_run' # NoPageRun)
              => /\ predict_calls = <<>>
                 /\ ~session_state.has_predictions]_vars

C21_Witness ==
    /\ page_run = [trigger |-> "send_now", outcome |-> "rendered"]
    /\ session_state.has_predictions
    /\ Len(session_state.predictions) = 2
    /\ Len(predict_calls) = 2
    /\ predict_calls[1].id_etudiant = 1
    /\ predict_calls[2].id_etudiant = 2

\* C22: no student is scored unless the dataset and the four required
\* artifacts were loaded: a missing dataset halts the run before the models
\* are looked at, a missing required artifact halts it before any
\* predict_risk call; a missing scaler alone does not halt, and every
\* student is then scored with no scaler.
C22_ScoringNeedsDataAndModels ==
    /\ predict_calls # <<>> => (DatasetPresent /\ RequiredPresent)
    /\ page_run # NoPageRun =>
           /\ page_run.outcome = "stopped_no_data" <=> ~DatasetPresent
           /\ page_run.outcome = "stopped_no_models" <=>
                  (DatasetPresent /\ ~RequiredPresent)
           /\ page_run.outcome \in {"stopped_no_data", "stopped_no_models"}
                  => (predict_calls = <<>> /\ ~session_state.has_predictions)
           /\ (DatasetPresent /\ RequiredPresent) =>
                  /\ predict_calls # <<>>
                  /\ \A k \in 1..Len(predict_calls) :
                         predict_calls[k].scaler =
                             IF ScalerFile \in deployment.files
                             THEN "scaler" ELSE "None"

C22_Witness ==
    /\ deployment.files = FileNames \ {ScalerFile}
    /\ deployment.raising_row = 0
    /\ page_run = [trigger |-> "open", outcome |-> "rendered"]
    /\ Len(predict_calls) = 2
    /\ predict_calls[1].scaler = "None"
    /\ predict_calls[2].scaler = "None"

\* C25: no run of the page modifies a student record of the loaded
\* dataset, whatever triggered it (scoring, filter change, selection, send,
\* save schedule), and after the initial scoring pass none modifies the
\* cached predictions.
C25_DatasetAndCacheUntouched ==
    [][/\ df_dataset # <<>> => df_dataset' = df_dataset
       /\ df_dataset' # <<>> => df_dataset' = deployment.rows
       /\ (session_state.has_predictions /\ session_state'.has_predictions)
              => session_state'.predictions = session_state.predictions]_vars

C25_Witness ==
    /\ page_run = [trigger |-> "save_schedule", outcome |-> "rendered"]
    /\ Len(deployment.rows) = 2
    /\ df_dataset = deployment.rows
    /\ session_state.has_predictions
    /\ session_state.predictions =
           <<[id_etudiant |-> 1, risque_score |-> SeuilCritique],
             [id_etudiant |-> 2, risque_score |-> SeuilModere - Delta]>>

\* C26: after any sequence of page runs in a session, including a first
\* run in which a model raises while scoring some student, the session's
\* prediction cache is either absent or holds exactly one assessment for
\* every student of the dataset: no later run displays or alerts from a
\* cache that lacks some student's assessment.
C26_CacheAbsentOrComplete ==
    /\ session_state.has_predictions => CacheComplete
    /\ page_run.outcome = "rendered" => CacheComplete

\* the same for a session in which no model raises
C26_CompleteWhenNoModelRaises ==
    deployment.raising_row = 0 => C26_CacheAbsentOrComplete

====
